---- MODULE Spec2Model ----
(***************************************************************************)
(* A model of marklogic.models.database.Database: the configuration object *)
(* (self._config, self.name, self.etag), its polymorphic unmarshal/marshal *)
(* layer and the typed slot mutators.                                      *)
(*                                                                         *)
(* A Python dict is a TLA+ function from its keys (strings) to its values, *)
(* a Python list is a sequence.  A typed sub-entity (an index, a backup, a *)
(* blackout, a field) is [cls |-> its class, config |-> its _config].      *)
(***************************************************************************)
EXTENDS Naturals, Sequences, FiniteSets, TLC

VARIABLES
    config,   \* self._config of the Database under observation
    name,     \* self.name
    etag,     \* self.etag
    doc,      \* the caller's wire document object handed to unmarshal, as it is now
    doc0,     \* the value of that wire document when it was handed over
    out,      \* what the last call returned
    err,      \* what the last call raised (Ok when it returned)
    op,       \* the last call: [name, arg]
    pre,      \* self._config before the last call
    steps,    \* number of calls made so far that built or changed the object
    pc,       \* "start" | "decoded" | "failed" | "encoded" | "ops"
    conn      \* the connection: [log, the requests the last call issued;
              \* dbname, the name the server has the database under;
              \* etag, the etag header of the last lookup answered with 200]

vars == <<config, name, etag, doc, doc0, out, err, op, pre, steps, pc, conn>>

----------------------------------------------------------------------------
(* Bounds of the model                                                     *)

\* longest list of records in a slot of a wire document
MaxLen == 2
\* number of mutating calls in one run of the object
MaxOps == 2

----------------------------------------------------------------------------
(* Python values                                                           *)

\* None where a string is expected
None == "<None>"
\* None where a dict is expected (the wire's "period": null)
NonePeriod == [none |-> TRUE]
\* {}
EmptyDict == [k \in {} |-> ""]
\* no entity (the arg of a call without one)
NoEntity == [cls |-> "NoneType", config |-> EmptyDict]

Put(d, k, v) == [x \in (DOMAIN d) \cup {k} |-> IF x = k THEN v ELSE d[x]]
Restrict(d, ks) == [x \in ks |-> d[x]]
Range(s) == {s[i] : i \in DOMAIN s}
Min(S) == CHOOSE x \in S : \A y \in S : x <= y
SeqsUpTo(S, n) == UNION {[1..k -> S] : k \in 0..n}

\* the first key of the sequence keys that d lacks (d[k] raises KeyError(k))
Missing(d, keys) == {i \in DOMAIN keys : keys[i] \notin DOMAIN d}
FirstMissing(d, keys) == keys[Min(Missing(d, keys))]

----------------------------------------------------------------------------
(* Exceptions                                                              *)

Ok == [type |-> "ok", detail |-> ""]
KeyError(k) == [type |-> "KeyError", detail |-> k]
TypeError == [type |-> "TypeError", detail |-> "argument of type 'NoneType' is not iterable"]
NameError(n) == [type |-> "NameError", detail |-> n]
UnexpectedManagementAPIResponse(msg) ==
    [type |-> "UnexpectedManagementAPIResponse", detail |-> msg]
ValidationError(msg) == [type |-> "ValidationError", detail |-> msg]

Return(v) == [err |-> Ok, val |-> v]
Raise(e) == [err |-> e, val |-> NoEntity]

----------------------------------------------------------------------------
(* Slots whose records decode by one constructor call                      *)

\* the order in which unmarshal walks the known array slots
SlotOrder ==
    << "range-element-index", "range-field-index",
       "range-element-attribute-index", "range-path-index",
       "geospatial-element-index", "geospatial-path-index",
       "geospatial-element-child-index", "geospatial-element-pair-index",
       "geospatial-element-attribute-pair-index",
       "fragment-root", "fragment-parent",
       "merge-blackout", "database-backup",
       "path-namespace", "element-word-lexicon",
       "element-attribute-word-lexicon", "element-word-query-through",
       "phrase-through", "phrase-around", "default-ruleset", "field" >>

ArraySlots == Range(SlotOrder)

\* the slots marshal encodes by taking each element's _config
MarshalConfigSlots == ArraySlots \ {"field"}

\* the keys unmarshal reads from a record of the slot, in the order it reads them
SlotArgs ==
    ("range-element-index" :>
        <<"scalar-type", "namespace-uri", "localname", "collation",
          "range-value-positions", "invalid-values">>) @@
    ("range-field-index" :>
        <<"scalar-type", "field-name", "collation",
          "range-value-positions", "invalid-values">>) @@
    ("range-element-attribute-index" :>
        <<"scalar-type", "parent-namespace-uri", "parent-localname",
          "namespace-uri", "localname", "collation",
          "range-value-positions", "invalid-values">>) @@
    ("range-path-index" :>
        <<"scalar-type", "path-expression", "collation",
          "range-value-positions", "invalid-values">>) @@
    ("geospatial-element-index" :>
        <<"namespace-uri", "localname", "coordinate-system", "point-format",
          "range-value-positions", "invalid-values">>) @@
    ("geospatial-path-index" :>
        <<"path-expression", "coordinate-system", "point-format",
          "range-value-positions", "invalid-values">>) @@
    ("geospatial-element-child-index" :>
        <<"parent-namespace-uri", "parent-localname", "namespace-uri",
          "localname", "coordinate-system", "point-format",
          "range-value-positions", "invalid-values">>) @@
    ("geospatial-element-pair-index" :>
        <<"parent-namespace-uri", "parent-localname",
          "longitude-namespace-uri", "longitude-localname",
          "latitude-namespace-uri", "latitude-localname",
          "coordinate-system", "range-value-positions", "invalid-values">>) @@
    ("geospatial-element-attribute-pair-index" :>
        <<"parent-namespace-uri", "parent-localname",
          "longitude-namespace-uri", "longitude-localname",
          "latitude-namespace-uri", "latitude-localname",
          "coordinate-system", "range-value-positions", "invalid-values">>) @@
    ("fragment-root" :> <<"namespace-uri", "localname">>) @@
    ("fragment-parent" :> <<"namespace-uri", "localname">>) @@
    ("path-namespace" :> <<"prefix", "namespace-uri">>) @@
    ("element-word-lexicon" :> <<"namespace-uri", "localname", "collation">>) @@
    ("element-attribute-word-lexicon" :>
        <<"parent-namespace-uri", "parent-localname", "namespace-uri",
          "localname", "collation">>) @@
    ("element-word-query-through" :> <<"namespace-uri", "localname">>) @@
    ("phrase-through" :> <<"namespace-uri", "localname">>) @@
    ("phrase-around" :> <<"namespace-uri", "localname">>) @@
    ("default-ruleset" :> <<"location">>)

\* the class unmarshal constructs for a record of the slot
SlotClass ==
    ("range-element-index" :> "ElementRangeIndex") @@
    ("range-field-index" :> "FieldRangeIndex") @@
    ("range-element-attribute-index" :> "AttributeRangeIndex") @@
    ("range-path-index" :> "PathRangeIndex") @@
    ("geospatial-element-index" :> "GeospatialElementIndex") @@
    ("geospatial-path-index" :> "GeospatialPathIndex") @@
    ("geospatial-element-child-index" :> "GeospatialElementChildIndex") @@
    ("geospatial-element-pair-index" :> "GeospatialElementPairIndex") @@
    ("geospatial-element-attribute-pair-index" :>
        "GeospatialElementAttributePairIndex") @@
    ("fragment-root" :> "FragmentRoot") @@
    ("fragment-parent" :> "FragmentParent") @@
    ("path-namespace" :> "PathNamespace") @@
    ("element-word-lexicon" :> "ElementWordLexicon") @@
    ("element-attribute-word-lexicon" :> "AttributeWordLexicon") @@
    ("element-word-query-through" :> "ElementWordQueryThrough") @@
    ("phrase-through" :> "PhraseThrough") @@
    ("phrase-around" :> "PhraseAround") @@
    ("default-ruleset" :> "RuleSet")

SimpleSlots == DOMAIN SlotArgs
IndexSlots == {s \in SimpleSlots : "range-value-positions" \in Range(SlotArgs[s])}

\* "true" / "false", the wire's string-typed boolean.  A variant that writes
\* Python's str(bool) comes first.
BoolTokenTitle(b) == IF b THEN "True" ELSE "False"
BoolToken(b) == IF b THEN "true" ELSE "false"

\* The constructor of a simple entity class, given its arguments by wire key
\* (the flag a Python bool): the entity's _config is its wire record, the flag
\* stored as the string token.
NewEntity(cls, args) ==
    [cls |-> cls,
     config |-> [k \in DOMAIN args |->
                    IF k = "range-value-positions" THEN BoolToken(args[k])
                    ELSE args[k]]]

\* the argument unmarshal passes for key k of a record: index['range-value-positions'] == 'true'
\* for the flag, index[k] otherwise
IndexArgTruthy(rec, k) ==
    IF k = "range-value-positions" THEN rec[k] # "" ELSE rec[k]
IndexArg(rec, k) ==
    IF k = "range-value-positions" THEN rec[k] = "true" ELSE rec[k]

\* One pass of a "for index in result._config[slot]" loop of unmarshal.  A
\* variant that reads a missing key as None comes first.
DecodeSimpleLenient(slot, rec) ==
    Return(NewEntity(SlotClass[slot],
                     [k \in Range(SlotArgs[slot]) |->
                         IF k \in DOMAIN rec THEN IndexArg(rec, k) ELSE None]))
DecodeSimple(slot, rec) ==
    IF Missing(rec, SlotArgs[slot]) # {}
    THEN Raise(KeyError(FirstMissing(rec, SlotArgs[slot])))
    ELSE Return(NewEntity(SlotClass[slot],
                          [k \in Range(SlotArgs[slot]) |-> IndexArg(rec, k)]))

----------------------------------------------------------------------------
(* merge-blackout: five shapes told apart by blackout-type and period      *)

MergeBlackoutTag ==
    ("MergeBlackoutRecurringAllDay" :> "recurring") @@
    ("MergeBlackoutRecurringDuration" :> "recurring") @@
    ("MergeBlackoutRecurringStartEnd" :> "recurring") @@
    ("MergeBlackoutOneTimeStartEnd" :> "once") @@
    ("MergeBlackoutOneTimeDuration" :> "once")

MergeBlackoutClasses == DOMAIN MergeBlackoutTag

\* the keys of the record the chosen branch passes to the factory method
MergeBlackoutTopArgs ==
    ("MergeBlackoutRecurringAllDay" :> <<"merge-priority", "limit", "day">>) @@
    ("MergeBlackoutRecurringDuration" :> <<"merge-priority", "limit", "day">>) @@
    ("MergeBlackoutRecurringStartEnd" :> <<"merge-priority", "limit", "day">>) @@
    ("MergeBlackoutOneTimeStartEnd" :> <<"merge-priority", "limit">>) @@
    ("MergeBlackoutOneTimeDuration" :> <<"merge-priority", "limit">>)

\* the keys of the record's period the chosen branch passes to the factory method
MergeBlackoutPeriodArgs ==
    ("MergeBlackoutRecurringAllDay" :> <<>>) @@
    ("MergeBlackoutRecurringDuration" :> <<"start-time", "duration">>) @@
    ("MergeBlackoutRecurringStartEnd" :> <<"start-time", "end-time">>) @@
    ("MergeBlackoutOneTimeStartEnd" :>
        <<"start-date", "start-time", "end-date", "end-time">>) @@
    ("MergeBlackoutOneTimeDuration" :> <<"start-date", "start-time", "duration">>)

\* MergeBlackout.recurringAllDay, .recurringDuration, .recurringStartEnd,
\* .oneTimeStartEnd, .oneTimeDuration: the entity's _config is its wire record,
\* period null for the all-day shape.
NewMergeBlackout(cls, top, period) ==
    [cls |-> cls,
     config |-> ("blackout-type" :> MergeBlackoutTag[cls]) @@ top @@
                ("period" :> IF cls = "MergeBlackoutRecurringAllDay"
                             THEN NonePeriod ELSE period)]

\* The if / elif chain of unmarshal: the class whose branch is taken, "none" for
\* the final else.  It is evaluated only when the conditions it reads raise
\* nothing.  A variant of the chain that probes end-time before duration comes first.
MergeBlackoutBranchOnceDurationFirst(b) ==
    IF b["blackout-type"] = "recurring" /\ b["period"] = NonePeriod
    THEN "MergeBlackoutRecurringAllDay"
    ELSE IF b["blackout-type"] = "recurring" /\ "duration" \in DOMAIN b["period"]
    THEN "MergeBlackoutRecurringDuration"
    ELSE IF b["blackout-type"] = "recurring" /\ "end-time" \in DOMAIN b["period"]
    THEN "MergeBlackoutRecurringStartEnd"
    ELSE IF b["blackout-type"] = "once" /\ "duration" \in DOMAIN b["period"]
    THEN "MergeBlackoutOneTimeDuration"
    ELSE IF b["blackout-type"] = "once" /\ "end-time" \in DOMAIN b["period"]
    THEN "MergeBlackoutOneTimeStartEnd"
    ELSE "none"
MergeBlackoutBranchEndTimeFirst(b) ==
    IF b["blackout-type"] = "recurring" /\ b["period"] = NonePeriod
    THEN "MergeBlackoutRecurringAllDay"
    ELSE IF b["blackout-type"] = "recurring" /\ "end-time" \in DOMAIN b["period"]
    THEN "MergeBlackoutRecurringStartEnd"
    ELSE IF b["blackout-type"] = "recurring" /\ "duration" \in DOMAIN b["period"]
    THEN "MergeBlackoutRecurringDuration"
    ELSE IF b["blackout-type"] = "once" /\ "end-time" \in DOMAIN b["period"]
    THEN "MergeBlackoutOneTimeStartEnd"
    ELSE IF b["blackout-type"] = "once" /\ "duration" \in DOMAIN b["period"]
    THEN "MergeBlackoutOneTimeDuration"
    ELSE "none"
MergeBlackoutBranch(b) ==
    IF b["blackout-type"] = "recurring" /\ b["period"] = NonePeriod
    THEN "MergeBlackoutRecurringAllDay"
    ELSE IF b["blackout-type"] = "recurring" /\ "duration" \in DOMAIN b["period"]
    THEN "MergeBlackoutRecurringDuration"
    ELSE IF b["blackout-type"] = "recurring" /\ "end-time" \in DOMAIN b["period"]
    THEN "MergeBlackoutRecurringStartEnd"
    ELSE IF b["blackout-type"] = "once" /\ "end-time" \in DOMAIN b["period"]
    THEN "MergeBlackoutOneTimeStartEnd"
    ELSE IF b["blackout-type"] = "once" /\ "duration" \in DOMAIN b["period"]
    THEN "MergeBlackoutOneTimeDuration"
    ELSE "none"

\* One pass of the "for blackout in result._config['merge-blackout']" loop.
\* The conditions read blackout['blackout-type'] first; blackout['period'] is read
\* only behind a matching tag ("and" short-circuits); "x in None" is a TypeError.
DecodeMergeBlackout(b) ==
    IF "blackout-type" \notin DOMAIN b THEN Raise(KeyError("blackout-type"))
    ELSE IF b["blackout-type"] \in {"recurring", "once"} /\ "period" \notin DOMAIN b
    THEN Raise(KeyError("period"))
    ELSE IF b["blackout-type"] = "once" /\ b["period"] = NonePeriod
    THEN Raise(TypeError)
    ELSE LET cls == MergeBlackoutBranch(b) IN
         IF cls = "none"
         THEN Raise(UnexpectedManagementAPIResponse("Unparseable merge blackout period"))
         ELSE IF Missing(b, MergeBlackoutTopArgs[cls]) # {}
         THEN Raise(KeyError(FirstMissing(b, MergeBlackoutTopArgs[cls])))
         ELSE IF Missing(b["period"], MergeBlackoutPeriodArgs[cls]) # {}
         THEN Raise(KeyError(FirstMissing(b["period"], MergeBlackoutPeriodArgs[cls])))
         ELSE Return(NewMergeBlackout(cls,
                        Restrict(b, Range(MergeBlackoutTopArgs[cls])),
                        Restrict(b["period"], Range(MergeBlackoutPeriodArgs[cls]))))

----------------------------------------------------------------------------
(* database-backup: six kinds told apart by backup-type                    *)

BackupTypes == {"minutely", "hourly", "daily", "weekly", "monthly", "once"}

ScheduledBackupClass ==
    ("minutely" :> "ScheduledDatabaseBackupMinutely") @@
    ("hourly" :> "ScheduledDatabaseBackupHourly") @@
    ("daily" :> "ScheduledDatabaseBackupDaily") @@
    ("weekly" :> "ScheduledDatabaseBackupWeekly") @@
    ("monthly" :> "ScheduledDatabaseBackupMonthly") @@
    ("once" :> "ScheduledDatabaseBackupOnce")

\* the arguments every branch passes after its schedule ("incremental" is passed
\* between include-replicas and journal-archiving from a local variable)
BackupCommonArgs ==
    << "max-backups", "backup-security-database", "backup-schemas-database",
       "backup-triggers-database", "include-replicas",
       "journal-archiving", "journal-archive-path", "journal-archive-lag-limit" >>

\* the keys the branch of a backup-type reads, in the order it reads them
BackupArgs ==
    ("minutely" :> <<"backup-directory", "backup-period">> \o BackupCommonArgs) @@
    ("hourly" :> <<"backup-directory", "backup-period", "backup-start-time">>
                    \o BackupCommonArgs) @@
    ("daily" :> <<"backup-directory", "backup-period", "backup-start-time">>
                    \o BackupCommonArgs) @@
    ("weekly" :> <<"backup-directory", "backup-period", "backup-day",
                   "backup-start-time">> \o BackupCommonArgs) @@
    ("monthly" :> <<"backup-directory", "backup-period", "backup-month-day",
                    "backup-start-time">> \o BackupCommonArgs) @@
    ("once" :> <<"backup-directory", "backup-start-date", "backup-start-time">>
                    \o BackupCommonArgs)

\* ScheduledDatabaseBackup.minutely, .hourly, .daily, .weekly, .monthly, .once:
\* the entity's _config is its wire record; an incremental of None is not set;
\* the backup id is the server's to give and starts as None.
NewScheduledBackup(type, args, incremental) ==
    [cls |-> ScheduledBackupClass[type],
     config |-> ("backup-type" :> type) @@ args @@
                (IF incremental = None THEN EmptyDict
                 ELSE ("incremental" :> incremental)) @@
                ("backup-id" :> None)]

\* The branch unmarshal takes for a backup-type: the factory's kind, "none" for
\* the else.  A variant that sends daily records to the hourly factory comes first.
BackupBranchDailyAsHourly(type) ==
    IF type = "daily" THEN "hourly"
    ELSE IF type \in BackupTypes THEN type ELSE "none"
BackupBranch(type) ==
    IF type = "minutely" THEN "minutely"
    ELSE IF type = "hourly" THEN "hourly"
    ELSE IF type = "daily" THEN "daily"
    ELSE IF type = "weekly" THEN "weekly"
    ELSE IF type = "monthly" THEN "monthly"
    ELSE IF type = "once" THEN "once"
    ELSE "none"

\* one pass of the "for backup in result._config['database-backup']" loop
DecodeBackup(backup) ==
    LET incremental == IF "incremental" \in DOMAIN backup
                       THEN backup["incremental"] ELSE None
    IN  IF "backup-type" \notin DOMAIN backup THEN Raise(KeyError("backup-type"))
        ELSE LET kind == BackupBranch(backup["backup-type"]) IN
             IF kind = "none"
             THEN Raise(UnexpectedManagementAPIResponse("Unparseable backup"))
             ELSE IF Missing(backup, BackupArgs[kind]) # {}
             THEN Raise(KeyError(FirstMissing(backup, BackupArgs[kind])))
             ELSE IF "backup-id" \notin DOMAIN backup
             THEN Raise(KeyError("backup-id"))
             ELSE LET temp == NewScheduledBackup(kind,
                                 Restrict(backup, Range(BackupArgs[kind])),
                                 incremental)
                  IN  Return([temp EXCEPT !.config =
                                 Put(temp.config, "backup-id", backup["backup-id"])])

----------------------------------------------------------------------------
(* field: RootField, PathField and the word query settings                 *)

\* FieldPath(path, weight)
FieldPath(path, weight) ==
    [cls |-> "FieldPath", config |-> ("path" :> path) @@ ("weight" :> weight)]
\* PathField(name, paths)
PathField(fname, paths) ==
    [cls |-> "PathField",
     config |-> ("field-name" :> fname) @@ ("field-path" :> paths)]
\* RootField(name, include_root)
RootField(fname, root) ==
    [cls |-> "RootField",
     config |-> ("field-name" :> fname) @@ ("include-root" :> root)]
\* WordQuery(include_root): the field without a name
WordQuery(root) ==
    [cls |-> "WordQuery", config |-> ("include-root" :> root)]

FieldClasses == {"RootField", "PathField", "WordQuery"}

\* Field.field_name(): None for the word query settings, the field with the
\* empty name on the wire (what fields(), add_field and word_query test for)
field_name(f) ==
    IF "field-name" \in DOMAIN f.config THEN f.config["field-name"] ELSE None

\* Field.marshal(): the wire record of a field; the word query settings go out
\* under the empty name, include-root as the string token
FieldMarshal(f) ==
    IF f.cls = "PathField"
    THEN ("field-name" :> f.config["field-name"]) @@
         ("field-path" :> [i \in DOMAIN f.config["field-path"] |->
                              f.config["field-path"][i].config])
    ELSE ("field-name" :> (IF f.cls = "WordQuery" THEN "" ELSE f.config["field-name"])) @@
         ("include-root" :> BoolToken(f.config["include-root"]))

\* Field.unmarshal(record): loads the field's further settings from the record;
\* the records of this model carry none
FieldUnmarshal(temp, field) == temp

\* One pass of the "for field in result._config['field']" loop.  A variant that
\* tests the empty name before field-path comes first.
DecodeFieldNameFirst(field) ==
    IF "field-name" \notin DOMAIN field THEN Raise(KeyError("field-name"))
    ELSE IF field["field-name"] = ""
    THEN Return(WordQuery("include-root" \in DOMAIN field
                          /\ field["include-root"] = "true"))
    ELSE IF "field-path" \in DOMAIN field
    THEN Return(PathField(field["field-name"],
                   [i \in DOMAIN field["field-path"] |->
                       FieldPath(field["field-path"][i]["path"],
                                 field["field-path"][i]["weight"])]))
    ELSE Return(RootField(field["field-name"],
                          "include-root" \in DOMAIN field
                          /\ field["include-root"] = "true"))
DecodeField(field) ==
    IF "field-name" \notin DOMAIN field THEN Raise(KeyError("field-name"))
    ELSE IF "field-path" \in DOMAIN field
    THEN LET bad == {i \in DOMAIN field["field-path"] :
                        Missing(field["field-path"][i], <<"path", "weight">>) # {}}
         IN  IF bad # {}
             THEN Raise(KeyError(FirstMissing(field["field-path"][Min(bad)],
                                              <<"path", "weight">>)))
             ELSE Return(FieldUnmarshal(
                     PathField(field["field-name"],
                        [i \in DOMAIN field["field-path"] |->
                            FieldPath(field["field-path"][i]["path"],
                                      field["field-path"][i]["weight"])]),
                     field))
    ELSE LET root == IF "include-root" \in DOMAIN field
                     THEN field["include-root"] = "true" ELSE FALSE
         IN  IF field["field-name"] = ""
             THEN Return(FieldUnmarshal(WordQuery(root), field))
             ELSE Return(FieldUnmarshal(RootField(field["field-name"], root), field))

----------------------------------------------------------------------------
(* Database.unmarshal and Database.marshal                                 *)

DecodeRecord(slot, rec) ==
    IF slot = "merge-blackout" THEN DecodeMergeBlackout(rec)
    ELSE IF slot = "database-backup" THEN DecodeBackup(rec)
    ELSE IF slot = "field" THEN DecodeField(rec)
    ELSE DecodeSimple(slot, rec)

\* One "olist = []; if slot in config: for ...: olist.append(temp)" block: the
\* list built for the slot, or what the first failing record raises.  A variant
\* that builds the list back to front comes first.
DecodeListReversed(slot, recs) ==
    LET rs == [i \in DOMAIN recs |-> DecodeRecord(slot, recs[i])]
        bad == {i \in DOMAIN recs : rs[i].err # Ok}
    IN  IF bad # {} THEN [err |-> rs[Min(bad)].err, val |-> <<>>]
        ELSE [err |-> Ok, val |-> [i \in DOMAIN recs |-> rs[Len(recs) + 1 - i].val]]
DecodeList(slot, recs) ==
    LET rs == [i \in DOMAIN recs |-> DecodeRecord(slot, recs[i])]
        bad == {i \in DOMAIN recs : rs[i].err # Ok}
    IN  IF bad # {} THEN [err |-> rs[Min(bad)].err, val |-> <<>>]
        ELSE [err |-> Ok, val |-> [i \in DOMAIN recs |-> rs[i].val]]

\* The blocks of unmarshal from the i-th on, working on the dict cfg that is
\* both the argument and result._config.  Every block ends by storing its list
\* under the slot's key, whether or not the key was there.
RECURSIVE UnmarshalSlots(_, _)
UnmarshalSlots(cfg, i) ==
    IF i > Len(SlotOrder) THEN [err |-> Ok, config |-> cfg]
    ELSE LET slot == SlotOrder[i]
             olist == IF slot \in DOMAIN cfg THEN DecodeList(slot, cfg[slot])
                      ELSE [err |-> Ok, val |-> <<>>]
         IN  IF olist.err # Ok THEN [err |-> olist.err, config |-> cfg]
             ELSE UnmarshalSlots(Put(cfg, slot, olist.val), i + 1)

\* Database.unmarshal(config): [err, config], config being the dict handed in
\* as the call leaves it (the Database's _config when err is Ok)
unmarshal(cfg) ==
    IF "database-name" \notin DOMAIN cfg
    THEN [err |-> KeyError("database-name"), config |-> cfg]
    ELSE UnmarshalSlots(cfg, 1)

\* Database.marshal() on a Database whose _config is cfg.  A variant that
\* emits the name and the array slots only comes first.
marshalSlotsOnly(cfg) ==
    [key \in DOMAIN cfg \cap (ArraySlots \cup {"database-name"}) |->
        IF key \in MarshalConfigSlots
        THEN [i \in DOMAIN cfg[key] |-> cfg[key][i].config]
        ELSE IF key = "field"
        THEN [i \in DOMAIN cfg[key] |-> FieldMarshal(cfg[key][i])]
        ELSE cfg[key]]
marshal(cfg) ==
    [key \in DOMAIN cfg |->
        IF key \in MarshalConfigSlots
        THEN [i \in DOMAIN cfg[key] |-> cfg[key][i].config]
        ELSE IF key = "field"
        THEN [i \in DOMAIN cfg[key] |-> FieldMarshal(cfg[key][i])]
        ELSE cfg[key]]

\* Database(name)._config
NewDatabaseConfig(dbname) ==
    ("database-name" :> dbname) @@
    ("forest" :> << dbname \o "-Forest-001" >>) @@
    ("security-database" :> "Security") @@
    ("schema-database" :> "Schemas") @@
    ("enabled" :> TRUE) @@
    ("language" :> "en")

----------------------------------------------------------------------------
(* Property lists and the field mutators                                   *)

\* the declared base class of the variant classes
BaseClass(cls) ==
    IF cls \in MergeBlackoutClasses THEN "MergeBlackout"
    ELSE IF cls \in Range(ScheduledBackupClass) THEN "ScheduledDatabaseBackup"
    ELSE IF cls \in FieldClasses THEN "Field"
    ELSE cls

\* isinstance(value, type)
IsInstance(value, type) == value.cls = type \/ BaseClass(value.cls) = type

TypeMismatch == [type |-> "TypeMismatch", detail |-> ""]
DuplicateKey == [type |-> "DuplicateKey", detail |-> ""]

\* the key of a slot whose elements have a natural key
NaturalKey == ("field" :> "field-name") @@ ("database-backup" :> "backup-id")
KeyOf(propname, value) ==
    IF propname \in DOMAIN NaturalKey /\ NaturalKey[propname] \in DOMAIN value.config
    THEN value.config[NaturalKey[propname]] ELSE None

Collides(cfg, propname, value) ==
    /\ propname \in DOMAIN cfg
    /\ KeyOf(propname, value) # None
    /\ \E i \in DOMAIN cfg[propname] :
          KeyOf(propname, cfg[propname][i]) = KeyOf(propname, value)

\* PropertyLists.add_to_property_list(propname, value, proptype): [err, config].
\* A variant without the natural-key check comes first.
add_to_property_list_nokey(cfg, propname, value, proptype) ==
    IF ~IsInstance(value, proptype) THEN [err |-> TypeMismatch, config |-> cfg]
    ELSE [err |-> Ok,
          config |-> Put(cfg, propname,
                         IF propname \in DOMAIN cfg
                         THEN Append(cfg[propname], value) ELSE <<value>>)]
\* A variant without the type check.
add_to_property_list_untyped(cfg, propname, value, proptype) ==
    IF Collides(cfg, propname, value) THEN [err |-> DuplicateKey, config |-> cfg]
    ELSE [err |-> Ok,
          config |-> Put(cfg, propname,
                         IF propname \in DOMAIN cfg
                         THEN Append(cfg[propname], value) ELSE <<value>>)]
add_to_property_list(cfg, propname, value, proptype) ==
    IF ~IsInstance(value, proptype) THEN [err |-> TypeMismatch, config |-> cfg]
    ELSE IF Collides(cfg, propname, value) THEN [err |-> DuplicateKey, config |-> cfg]
    ELSE [err |-> Ok,
          config |-> Put(cfg, propname,
                         IF propname \in DOMAIN cfg
                         THEN Append(cfg[propname], value) ELSE <<value>>)]

\* the slot add_index files an index definition under ("" when it is no index)
\* A variant that treats the four range index classes as subclasses of
\* ElementRangeIndex comes first.
IndexSlotOfRangeFamily(index_def) ==
    IF index_def.cls \in {"ElementRangeIndex", "AttributeRangeIndex",
                          "FieldRangeIndex", "PathRangeIndex"}
    THEN "range-element-index"
    ELSE IF index_def.cls \in {SlotClass[x] : x \in IndexSlots}
    THEN CHOOSE x \in IndexSlots : SlotClass[x] = index_def.cls
    ELSE ""
IndexSlotOf(index_def) ==
    IF IsInstance(index_def, "ElementRangeIndex") THEN "range-element-index"
    ELSE IF IsInstance(index_def, "AttributeRangeIndex")
    THEN "range-element-attribute-index"
    ELSE IF IsInstance(index_def, "FieldRangeIndex") THEN "range-field-index"
    ELSE IF IsInstance(index_def, "PathRangeIndex") THEN "range-path-index"
    ELSE IF IsInstance(index_def, "GeospatialElementChildIndex")
    THEN "geospatial-element-child-index"
    ELSE IF IsInstance(index_def, "GeospatialElementAttributePairIndex")
    THEN "geospatial-element-attribute-pair-index"
    ELSE IF IsInstance(index_def, "GeospatialElementPairIndex")
    THEN "geospatial-element-pair-index"
    ELSE IF IsInstance(index_def, "GeospatialElementIndex")
    THEN "geospatial-element-index"
    ELSE IF IsInstance(index_def, "GeospatialPathIndex")
    THEN "geospatial-path-index"
    ELSE ""

\* Database.add_index(index_def): [err, config]
add_index(cfg, index_def) ==
    IF IndexSlotOf(index_def) = ""
    THEN [err |-> ValidationError("Not an index"), config |-> cfg]
    ELSE add_to_property_list(cfg, IndexSlotOf(index_def), index_def,
                              SlotClass[IndexSlotOf(index_def)])

\* Database.add_field(field): [err, config]
add_field(cfg, field) ==
    IF ~IsInstance(field, "Field") THEN [err |-> TypeMismatch, config |-> cfg]
    ELSE IF field_name(field) = None
    THEN [err |-> ValidationError("Fields must have a non-empty name"), config |-> cfg]
    ELSE add_to_property_list(cfg, "field", field, "Field")

\* Database.word_query(): the first field whose field_name() is None, else a
\* fresh WordQuery(False).  A variant that always answers the default comes first.
word_query_default(cfg) == WordQuery(FALSE)
word_query(cfg) ==
    IF "field" \in DOMAIN cfg
       /\ \E i \in DOMAIN cfg["field"] : field_name(cfg["field"][i]) = None
    THEN cfg["field"][Min({i \in DOMAIN cfg["field"] :
                              field_name(cfg["field"][i]) = None})]
    ELSE WordQuery(FALSE)

\* Database.set_word_query(word_query): [err, config].  The loop compares
\* field_name() with ""; its body assigns to "items", a name that is not
\* defined, after evaluating assert_type.
set_word_query(cfg, wq) ==
    LET fields == IF "field" \in DOMAIN cfg THEN cfg["field"] ELSE <<>>
    IN  IF \E i \in DOMAIN fields : field_name(fields[i]) = ""
        THEN IF ~IsInstance(wq, "WordQuery")
             THEN [err |-> TypeMismatch, config |-> cfg]
             ELSE [err |-> NameError("items"), config |-> cfg]
        ELSE IF ~IsInstance(wq, "WordQuery")
        THEN [err |-> TypeMismatch, config |-> cfg]
        ELSE [err |-> Ok, config |-> Put(cfg, "field", Append(fields, wq))]

----------------------------------------------------------------------------
(* Wire documents handed to unmarshal                                      *)

SimpleRecord(slot, v, flag) ==
    [k \in Range(SlotArgs[slot]) |->
        IF k = "range-value-positions" THEN flag ELSE v]

SimpleSamples(slot) ==
    {SimpleRecord(slot, v, flag) : v \in {"a", "b"}, flag \in {"true", "false"}}
    \cup (IF slot = "range-element-index"
          THEN {Restrict(SimpleRecord(slot, "a", "true"),
                         Range(SlotArgs[slot]) \ {"scalar-type"})}
          ELSE {})

PeriodDuration == ("start-time" :> "08:00:00") @@ ("duration" :> "P1H")
PeriodEnd == ("start-time" :> "08:00:00") @@ ("end-time" :> "09:00:00")
PeriodBoth == PeriodDuration @@ PeriodEnd
OnceDuration == ("start-date" :> "2015-03-01") @@ PeriodDuration
OnceEnd == ("start-date" :> "2015-03-01") @@ ("end-date" :> "2015-03-02") @@ PeriodEnd
OnceBoth == OnceDuration @@ OnceEnd

BlackoutRecord(type, period) ==
    ("blackout-type" :> type) @@ ("merge-priority" :> "lower") @@
    ("limit" :> "4") @@
    (IF type = "once" THEN EmptyDict ELSE ("day" :> "monday")) @@
    ("period" :> period)

BlackoutSamples ==
    { BlackoutRecord("recurring", NonePeriod),
      BlackoutRecord("recurring", PeriodDuration),
      BlackoutRecord("recurring", PeriodEnd),
      BlackoutRecord("recurring", PeriodBoth),
      BlackoutRecord("recurring", EmptyDict),
      BlackoutRecord("once", OnceEnd),
      BlackoutRecord("once", OnceDuration),
      BlackoutRecord("once", OnceBoth),
      BlackoutRecord("once", NonePeriod),
      BlackoutRecord("weekly", PeriodDuration),
      Restrict(BlackoutRecord("recurring", NonePeriod),
               {"blackout-type", "merge-priority", "limit", "day"}) }

BackupRecord(type, keysOf, id) ==
    ("backup-type" :> type) @@ ("backup-id" :> id) @@
    [k \in Range(BackupArgs[keysOf]) |-> "a"]

BackupSamples ==
    { BackupRecord("minutely", "minutely", "id1"),
      BackupRecord("hourly", "hourly", "id2") @@ ("incremental" :> "false"),
      BackupRecord("daily", "daily", "id1"),
      BackupRecord("weekly", "weekly", "id2"),
      BackupRecord("monthly", "monthly", "id1"),
      BackupRecord("once", "once", "id2"),
      BackupRecord("yearly", "weekly", "id1"),
      Restrict(BackupRecord("daily", "daily", "id2"),
               (Range(BackupArgs["daily"]) \cup {"backup-type", "backup-id"})
                  \ {"backup-directory"}) }

PathRecords == << ("path" :> "/a/b") @@ ("weight" :> "1.0") >>

FieldSamples ==
    { ("field-name" :> "f1") @@ ("include-root" :> "true"),
      ("field-name" :> "f2") @@ ("include-root" :> "false"),
      ("field-name" :> "f2"),
      ("field-name" :> "") @@ ("include-root" :> "false"),
      ("field-name" :> "") @@ ("include-root" :> "true"),
      ("field-name" :> "f1") @@ ("field-path" :> PathRecords),
      ("field-name" :> "") @@ ("field-path" :> PathRecords),
      ("include-root" :> "true") }

Samples(slot) ==
    IF slot = "merge-blackout" THEN BlackoutSamples
    ELSE IF slot = "database-backup" THEN BackupSamples
    ELSE IF slot = "field" THEN FieldSamples
    ELSE SimpleSamples(slot)

\* the keys of every document: the name, a scalar option, a key the model does not know
BaseDoc ==
    ("database-name" :> "Documents") @@ ("enabled" :> TRUE) @@
    ("x-opaque" :> "kept")

WireDocs ==
    {BaseDoc, Restrict(BaseDoc, {"enabled"})}
    \cup UNION {{BaseDoc @@ (slot :> recs) : recs \in SeqsUpTo(Samples(slot), MaxLen)} :
                 slot \in ArraySlots}


----------------------------------------------------------------------------
(* Entities the public constructors build                                  *)

IndexPool ==
    {NewEntity(SlotClass[slot],
               [k \in Range(SlotArgs[slot]) |->
                   IF k = "range-value-positions" THEN flag ELSE "a"]) :
        slot \in IndexSlots, flag \in BOOLEAN}

BlackoutTop(cls) == [k \in Range(MergeBlackoutTopArgs[cls]) |-> "lower"]

BlackoutPool ==
    { NewMergeBlackout("MergeBlackoutRecurringAllDay",
                       BlackoutTop("MergeBlackoutRecurringAllDay"), EmptyDict),
      NewMergeBlackout("MergeBlackoutRecurringDuration",
                       BlackoutTop("MergeBlackoutRecurringDuration"), PeriodDuration),
      NewMergeBlackout("MergeBlackoutRecurringStartEnd",
                       BlackoutTop("MergeBlackoutRecurringStartEnd"), PeriodEnd),
      NewMergeBlackout("MergeBlackoutOneTimeStartEnd",
                       BlackoutTop("MergeBlackoutOneTimeStartEnd"), OnceEnd),
      NewMergeBlackout("MergeBlackoutOneTimeDuration",
                       BlackoutTop("MergeBlackoutOneTimeDuration"), OnceDuration) }

BackupPool ==
    {NewScheduledBackup(type, [k \in Range(BackupArgs[type]) |-> "a"],
                        IF type = "daily" THEN "true" ELSE None) :
        type \in BackupTypes}

NamedFieldPool ==
    { RootField("f1", TRUE), RootField("f1", FALSE), RootField("f2", FALSE),
      PathField("f2", <<FieldPath("/a/b", "1.0")>>) }

WordQueryPool == {WordQuery(TRUE), WordQuery(FALSE)}

----------------------------------------------------------------------------
(* The calls                                                               *)

Self == [self |-> TRUE]

\* a mutating method of the Database, r its [err, config], ret what it returns
Mutate(opname, arg, r, ret) ==
    /\ pc \in {"ops", "decoded"}
    /\ steps < MaxOps
    /\ steps' = steps + 1
    /\ config' = r.config
    /\ pre' = config
    /\ err' = r.err
    /\ out' = IF r.err = Ok THEN ret ELSE NoEntity
    /\ op' = [name |-> opname, arg |-> arg]
    /\ UNCHANGED <<name, etag, doc, doc0, pc, conn>>

\* a method that only reads the Database
Read(opname, ret) ==
    /\ pc \in {"ops", "decoded"}
    /\ out' = ret
    /\ pre' = config
    /\ err' = Ok
    /\ op' = [name |-> opname, arg |-> NoEntity]
    /\ UNCHANGED <<config, name, etag, doc, doc0, steps, pc, conn>>

AddIndex ==
    \E e \in IndexPool \cup {WordQuery(FALSE)} :
        Mutate("add_index", e, add_index(config, e), Self)

AddMergeBlackout ==
    \E e \in BlackoutPool :
        Mutate("add_merge_blackout", e,
               add_to_property_list(config, "merge-blackout", e, "MergeBlackout"),
               Self)

AddScheduledBackup ==
    \E e \in BackupPool :
        Mutate("add_scheduled_backup", e,
               add_to_property_list(config, "database-backup", e,
                                    "ScheduledDatabaseBackup"),
               Self)

AddField ==
    \E e \in NamedFieldPool \cup {WordQuery(FALSE)} :
        Mutate("add_field", e, add_field(config, e), Self)

SetWordQuery ==
    \E e \in WordQueryPool \cup {RootField("f1", TRUE)} :
        Mutate("set_word_query", e, set_word_query(config, e), NoEntity)

WordQueryGet == Read("word_query", word_query(config))

Marshal == Read("marshal", marshal(config))

\* Database.unmarshal(doc) on the wire document of the run
Unmarshal ==
    /\ pc = "start"
    /\ LET r == unmarshal(doc) IN
        /\ doc' = r.config
        /\ err' = r.err
        /\ pc' = IF r.err = Ok THEN "decoded" ELSE "failed"
        /\ config' = IF r.err = Ok THEN r.config ELSE config
        /\ name' = IF r.err = Ok THEN r.config["database-name"] ELSE name
        /\ out' = IF r.err = Ok THEN Self ELSE NoEntity
    /\ pre' = config
    /\ op' = [name |-> "unmarshal", arg |-> NoEntity]
    /\ steps' = steps + 1
    /\ UNCHANGED <<etag, doc0, conn>>

\* Database.unmarshal(self.marshal()): the object is replaced by the one decoded
\* from its own wire document
RoundTrip ==
    /\ pc = "ops"
    /\ steps < MaxOps
    /\ LET r == unmarshal(marshal(config)) IN
        /\ doc' = r.config
        /\ err' = r.err
        /\ config' = IF r.err = Ok THEN r.config ELSE config
        /\ name' = IF r.err = Ok THEN r.config["database-name"] ELSE name
        /\ out' = IF r.err = Ok THEN Self ELSE NoEntity
    /\ doc0' = marshal(config)
    /\ pre' = config
    /\ op' = [name |-> "roundtrip", arg |-> NoEntity]
    /\ steps' = steps + 1
    /\ UNCHANGED <<etag, pc, conn>>

----------------------------------------------------------------------------
(* Specifications                                                          *)

NoCall == [name |-> "__init__", arg |-> NoEntity]

\* a connection nothing was sent over, the database known as dbname
NoTraffic(dbname) == [log |-> <<>>, dbname |-> dbname, etag |-> None]

\* a Database built by its constructor, then mutated and read through its methods
Init ==
    /\ config = NewDatabaseConfig("Documents")
    /\ name = "Documents"
    /\ etag = None
    /\ doc = EmptyDict
    /\ doc0 = EmptyDict
    /\ out = Self
    /\ err = Ok
    /\ op = NoCall
    /\ pre = NewDatabaseConfig("Documents")
    /\ steps = 0
    /\ pc = "ops"
    /\ conn = NoTraffic("Documents")

Next ==
    \/ AddIndex
    \/ AddMergeBlackout
    \/ AddScheduledBackup
    \/ AddField
    \/ SetWordQuery
    \/ WordQueryGet
    \/ Marshal
    \/ RoundTrip

Spec == Init /\ [][Next]_vars

\* a wire document decoded by unmarshal, then read and encoded again
InitCodec ==
    /\ doc0 \in WireDocs
    /\ doc = doc0
    /\ config = EmptyDict
    /\ name = None
    /\ etag = None
    /\ out = NoEntity
    /\ err = Ok
    /\ op = NoCall
    /\ pre = EmptyDict
    /\ steps = 0
    /\ pc = "start"
    /\ conn = NoTraffic(None)

NextCodec ==
    \/ Unmarshal
    \/ SetWordQuery
    \/ WordQueryGet
    \/ Marshal

SpecCodec == InitCodec /\ [][NextCodec]_vars

----------------------------------------------------------------------------
(* Shapes of wire records                                                  *)

\* a record of a simple slot with exactly the keys of its class, the flag a token
WellFormedSimple(slot, rec) ==
    /\ DOMAIN rec = Range(SlotArgs[slot])
    /\ "range-value-positions" \in DOMAIN rec
          => rec["range-value-positions"] \in {"true", "false"}

\* a merge-blackout record with exactly the keys of one of the five shapes
WellFormedBlackout(b) ==
    \E cls \in MergeBlackoutClasses :
        /\ DOMAIN b = Range(MergeBlackoutTopArgs[cls]) \cup {"blackout-type", "period"}
        /\ b["blackout-type"] = MergeBlackoutTag[cls]
        /\ IF cls = "MergeBlackoutRecurringAllDay" THEN b["period"] = NonePeriod
           ELSE /\ b["period"] # NonePeriod
                /\ DOMAIN b["period"] = Range(MergeBlackoutPeriodArgs[cls])

\* a database-backup record with a known tag and exactly the keys of its kind
WellFormedBackup(b) ==
    /\ "backup-type" \in DOMAIN b
    /\ b["backup-type"] \in BackupTypes
    /\ DOMAIN b \ {"incremental"} =
          Range(BackupArgs[b["backup-type"]]) \cup {"backup-type", "backup-id"}

\* a field record: a name with include-root, or a name with field-path
WellFormedField(f) ==
    \/ /\ DOMAIN f = {"field-name", "include-root"}
       /\ f["include-root"] \in {"true", "false"}
    \/ /\ DOMAIN f = {"field-name", "field-path"}
       /\ \A i \in DOMAIN f["field-path"] :
             DOMAIN f["field-path"][i] = {"path", "weight"}

WellFormedRecord(slot, rec) ==
    IF slot = "merge-blackout" THEN WellFormedBlackout(rec)
    ELSE IF slot = "database-backup" THEN WellFormedBackup(rec)
    ELSE IF slot = "field" THEN WellFormedField(rec)
    ELSE WellFormedSimple(slot, rec)

WellFormedDoc(d) ==
    /\ "database-name" \in DOMAIN d
    /\ \A slot \in ArraySlots \cap DOMAIN d :
          \A i \in DOMAIN d[slot] : WellFormedRecord(slot, d[slot][i])

\* the state right after Database.unmarshal(doc0) returned or raised
Unmarshalled == op.name = "unmarshal"

----------------------------------------------------------------------------
(* Claims                                                                  *)

\* C1: an entity built by a public constructor and put in its slot of a
\* Database comes back from Database.unmarshal(db.marshal()): the call succeeds
\* and every array slot the Database held holds the same entities, same
\* variant and same field values, and nothing else.
C1_EntityRoundTrip ==
    op.name = "roundtrip" =>
        /\ err = Ok
        /\ \A slot \in ArraySlots \cap DOMAIN pre : config[slot] = pre[slot]

\* C1 witness: a Database holding one merge blackout of the all-day shape has
\* been marshalled and unmarshalled.
C1_Witness ==
    /\ op.name = "roundtrip"
    /\ err = Ok
    /\ "merge-blackout" \in DOMAIN pre
    /\ Len(pre["merge-blackout"]) = 1
    /\ pre["merge-blackout"][1].cls = "MergeBlackoutRecurringAllDay"

\* C2: for every well-formed wire document, unmarshal succeeds and marshal of
\* the result has exactly the keys of the document, each with an equal value.
C2_DocRoundTrip ==
    (Unmarshalled /\ WellFormedDoc(doc0)) =>
        /\ err = Ok
        /\ DOMAIN marshal(config) = DOMAIN doc0
        /\ \A key \in DOMAIN doc0 : marshal(config)[key] = doc0[key]

\* the discriminator combinations of C3 that match no variant
UnrecognizedBlackout(b) ==
    /\ "blackout-type" \in DOMAIN b
    /\ \/ b["blackout-type"] \notin {"recurring", "once"}
       \/ "period" \notin DOMAIN b
       \/ b["blackout-type"] = "once" /\ b["period"] = NonePeriod
       \/ /\ b["period"] # NonePeriod
          /\ "duration" \notin DOMAIN b["period"]
          /\ "end-time" \notin DOMAIN b["period"]
UnrecognizedBackup(b) ==
    "backup-type" \in DOMAIN b /\ b["backup-type"] \notin BackupTypes
Unrecognized(slot, rec) ==
    \/ slot = "merge-blackout" /\ UnrecognizedBlackout(rec)
    \/ slot = "database-backup" /\ UnrecognizedBackup(rec)

\* C3: unmarshal of a wire document that holds, among well-formed records, a
\* merge-blackout or database-backup record matching no variant raises
\* UnexpectedManagementAPIResponse.
C3_UnrecognizedRaises ==
    ( /\ Unmarshalled
      /\ "database-name" \in DOMAIN doc0
      /\ \E slot \in ArraySlots \cap DOMAIN doc0 : \E i \in DOMAIN doc0[slot] :
            Unrecognized(slot, doc0[slot][i])
      /\ \A slot \in ArraySlots \cap DOMAIN doc0 : \A i \in DOMAIN doc0[slot] :
            \/ Unrecognized(slot, doc0[slot][i])
            \/ WellFormedRecord(slot, doc0[slot][i]) )
    => err.type = "UnexpectedManagementAPIResponse"

\* the rules of C4 in their declared order: the tag, then what is probed in period
BlackoutRules ==
    << [cls |-> "MergeBlackoutRecurringAllDay", tag |-> "recurring", probe |-> "null"],
       [cls |-> "MergeBlackoutRecurringDuration", tag |-> "recurring", probe |-> "duration"],
       [cls |-> "MergeBlackoutRecurringStartEnd", tag |-> "recurring", probe |-> "end-time"],
       [cls |-> "MergeBlackoutOneTimeStartEnd", tag |-> "once", probe |-> "end-time"],
       [cls |-> "MergeBlackoutOneTimeDuration", tag |-> "once", probe |-> "duration"] >>

RuleMatches(rule, b) ==
    /\ b["blackout-type"] = rule.tag
    /\ IF rule.probe = "null" THEN b["period"] = NonePeriod
       ELSE b["period"] # NonePeriod /\ rule.probe \in DOMAIN b["period"]

FirstRule(b) == Min({i \in DOMAIN BlackoutRules : RuleMatches(BlackoutRules[i], b)})

\* C4: when unmarshal decodes a document, each merge-blackout record became the
\* variant of the first rule it matches in the order tag, then period probe; in
\* particular the recurring record with period null is the all-day variant and
\* the recurring record with period {duration P1H, start-time 08:00:00} is the
\* recurring-duration variant carrying that start time and duration.
C4_BlackoutPriority ==
    (Unmarshalled /\ err = Ok /\ "merge-blackout" \in DOMAIN doc0) =>
        /\ Len(config["merge-blackout"]) = Len(doc0["merge-blackout"])
        /\ \A i \in DOMAIN doc0["merge-blackout"] :
              LET b == doc0["merge-blackout"][i]
                  e == config["merge-blackout"][i]
              IN  /\ e.cls = BlackoutRules[FirstRule(b)].cls
                  /\ b = BlackoutRecord("recurring", NonePeriod)
                        => e.cls = "MergeBlackoutRecurringAllDay"
                  /\ b = BlackoutRecord("recurring", PeriodDuration)
                        => /\ e.cls = "MergeBlackoutRecurringDuration"
                           /\ e.config["period"] = PeriodDuration

\* C4 witness: a decoded document whose merge-blackout slot held the two literal
\* records, the all-day one first.
C4_Witness ==
    /\ Unmarshalled /\ err = Ok
    /\ "merge-blackout" \in DOMAIN doc0
    /\ doc0["merge-blackout"] = << BlackoutRecord("recurring", NonePeriod),
                                   BlackoutRecord("recurring", PeriodDuration) >>
    /\ config["merge-blackout"][2].cls = "MergeBlackoutRecurringDuration"

\* C5: when unmarshal meets a field slot whose records all have a field-name,
\* it succeeds and each record became exactly one variant: PathField when the
\* record has field-path, whatever its name; otherwise WordQuery when the name
\* is empty; otherwise RootField.
C5_FieldPrecedence ==
    ( /\ Unmarshalled
      /\ "field" \in DOMAIN doc0
      /\ \A i \in DOMAIN doc0["field"] : "field-name" \in DOMAIN doc0["field"][i] )
    => /\ err = Ok
       /\ Len(config["field"]) = Len(doc0["field"])
       /\ \A i \in DOMAIN doc0["field"] :
             LET f == doc0["field"][i]
                 e == config["field"][i]
             IN  /\ e.cls \in FieldClasses
                 /\ e.cls = "PathField" <=> "field-path" \in DOMAIN f
                 /\ e.cls = "WordQuery" <=>
                       ("field-path" \notin DOMAIN f /\ f["field-name"] = "")
                 /\ e.cls = "RootField" <=>
                       ("field-path" \notin DOMAIN f /\ f["field-name"] # "")

\* C5 witness: a decoded document whose field slot held a record with
\* field-path and the empty name, next to an empty-named record without it.
C5_Witness ==
    /\ Unmarshalled /\ err = Ok
    /\ "field" \in DOMAIN doc0
    /\ Len(doc0["field"]) = 2
    /\ "field-path" \in DOMAIN doc0["field"][1]
    /\ doc0["field"][1]["field-name"] = ""
    /\ config["field"][1].cls = "PathField"
    /\ config["field"][2].cls = "WordQuery"

\* a database-backup record that has every key its tag's branch, if any, reads
CompleteBackup(b) ==
    /\ {"backup-type", "backup-id"} \subseteq DOMAIN b
    /\ b["backup-type"] \in BackupTypes
          => Range(BackupArgs[b["backup-type"]]) \subseteq DOMAIN b

\* C6: when unmarshal meets a database-backup slot of complete records, a record
\* with a backup-type outside the six known makes it raise
\* UnexpectedManagementAPIResponse; otherwise it succeeds, each record became
\* the variant of its backup-type and the entity carries the record's backup-id.
C6_BackupDiscrimination ==
    ( /\ Unmarshalled
      /\ "database-backup" \in DOMAIN doc0
      /\ \A i \in DOMAIN doc0["database-backup"] :
            CompleteBackup(doc0["database-backup"][i]) )
    => IF \E i \in DOMAIN doc0["database-backup"] :
             doc0["database-backup"][i]["backup-type"] \notin BackupTypes
       THEN err = UnexpectedManagementAPIResponse("Unparseable backup")
       ELSE /\ err = Ok
            /\ Len(config["database-backup"]) = Len(doc0["database-backup"])
            /\ \A i \in DOMAIN doc0["database-backup"] :
                  LET b == doc0["database-backup"][i]
                      e == config["database-backup"][i]
                  IN  /\ e.cls = ScheduledBackupClass[b["backup-type"]]
                      /\ e.config["backup-type"] = b["backup-type"]
                      /\ e.config["backup-id"] = b["backup-id"]

\* C6 witness: a decoded document whose database-backup slot held a daily and a
\* once record with different backup ids.
C6_Witness ==
    /\ Unmarshalled /\ err = Ok
    /\ "database-backup" \in DOMAIN doc0
    /\ Len(doc0["database-backup"]) = 2
    /\ doc0["database-backup"][1]["backup-type"] = "daily"
    /\ doc0["database-backup"][2]["backup-type"] = "once"
    /\ config["database-backup"][1].config["backup-id"] = "id1"
    /\ config["database-backup"][2].config["backup-id"] = "id2"

\* the wire record marshal emits for an element of a slot
Encode(slot, e) == IF slot = "field" THEN FieldMarshal(e) ELSE e.config

\* the typed add call of a slot on a Database whose _config is cfg
AddTo(cfg, slot, e) ==
    IF slot = "field" THEN add_field(cfg, e)
    ELSE IF slot \in IndexSlots THEN add_index(cfg, e)
    ELSE add_to_property_list(cfg, slot, e, BaseClass(e.cls))

AddPool(slot) ==
    IF slot = "field" THEN NamedFieldPool
    ELSE IF slot = "merge-blackout" THEN BlackoutPool
    ELSE IF slot = "database-backup" THEN BackupPool
    ELSE {e \in IndexPool : e.cls = SlotClass[slot]}

\* C7: the decoded Database marshals every slot of the wire document in the
\* document's order: as many elements, the i-th the record of the i-th element
\* decoded, which is the i-th record itself when that is well-formed; and an
\* element a successful add call puts in a slot is marshalled last, after the
\* elements already there in their order.
C7_OrderPreserved ==
    (Unmarshalled /\ err = Ok) =>
        /\ \A slot \in ArraySlots \cap DOMAIN doc0 :
              /\ Len(marshal(config)[slot]) = Len(doc0[slot])
              /\ \A i \in DOMAIN doc0[slot] :
                    /\ marshal(config)[slot][i] =
                          Encode(slot, DecodeRecord(slot, doc0[slot][i]).val)
                    /\ WellFormedRecord(slot, doc0[slot][i])
                          => marshal(config)[slot][i] = doc0[slot][i]
        /\ \A slot \in ArraySlots \cap DOMAIN doc0 : \A e \in AddPool(slot) :
              LET r == AddTo(config, slot, e)
              IN  r.err = Ok =>
                     marshal(r.config)[slot] =
                        Append(marshal(config)[slot], Encode(slot, e))

\* C7 witness: a decoded document whose merge-blackout slot held two different
\* well-formed records.
C7_Witness ==
    /\ Unmarshalled /\ err = Ok
    /\ "merge-blackout" \in DOMAIN doc0
    /\ Len(doc0["merge-blackout"]) = 2
    /\ doc0["merge-blackout"][1] # doc0["merge-blackout"][2]
    /\ \A i \in {1, 2} : WellFormedBlackout(doc0["merge-blackout"][i])
    /\ marshal(config)["merge-blackout"] = doc0["merge-blackout"]

\* the positions of the word-query entities in the field slot of cfg
WordQueryEntities(cfg) ==
    IF "field" \in DOMAIN cfg
    THEN {i \in DOMAIN cfg["field"] : cfg["field"][i].cls = "WordQuery"}
    ELSE {}

\* C8: after every set_word_query call with a WordQuery the call has completed
\* without error, the field slot holds exactly one word-query entity, that
\* entity is the argument of the call, and the slot grew only when it held no
\* word-query entity before.
C8_WordQuerySingleton ==
    (op.name = "set_word_query" /\ op.arg.cls = "WordQuery") =>
        /\ err = Ok
        /\ Cardinality(WordQueryEntities(config)) = 1
        /\ \A i \in WordQueryEntities(config) : config["field"][i] = op.arg
        /\ WordQueryEntities(pre) # {}
              => Len(config["field"]) = Len(pre["field"])

\* C9: word_query() completes without error and leaves the whole configuration
\* as it was; it answers a word-query entity stored in the field slot when
\* there is one (the stored one when there is exactly one) and a fresh default
\* WordQuery(False) when there is none.
C9_WordQueryGetter ==
    op.name = "word_query" =>
        /\ err = Ok
        /\ config = pre
        /\ IF WordQueryEntities(config) = {}
           THEN out = WordQuery(FALSE)
           ELSE /\ \E i \in WordQueryEntities(config) : out = config["field"][i]
                /\ out = config["field"][Min(WordQueryEntities(config))]

\* C9 witness: word_query() answered the non-default word-query entity that is
\* stored in the field slot after a named field.
C9_Witness ==
    /\ op.name = "word_query"
    /\ "field" \in DOMAIN config
    /\ Len(config["field"]) = 2
    /\ config["field"][1].cls = "RootField"
    /\ config["field"][2] = WordQuery(TRUE)
    /\ out = WordQuery(TRUE)

\* the names of the named fields in the field slot of cfg
FieldNames(cfg) ==
    IF "field" \in DOMAIN cfg
    THEN {cfg["field"][i].config["field-name"] :
             i \in {j \in DOMAIN cfg["field"] :
                       "field-name" \in DOMAIN cfg["field"][j].config}}
    ELSE {}

\* C10: add_field with a field whose name is the name of a field already in the
\* field slot fails with the duplicate-key error and leaves the field list, and
\* the rest of the configuration, as it was.
C10_DuplicateRejected ==
    ( /\ op.name = "add_field"
      /\ "field-name" \in DOMAIN op.arg.config
      /\ op.arg.config["field-name"] \in FieldNames(pre) )
    => /\ err = DuplicateKey
       /\ config = pre
       /\ Len(config["field"]) = Len(pre["field"])

\* C10 witness: add_field of a path field named like the root field already
\* stored was refused.
C10_Witness ==
    /\ op.name = "add_field"
    /\ op.arg.cls = "PathField"
    /\ err = DuplicateKey
    /\ "field" \in DOMAIN config
    /\ Len(config["field"]) = 1
    /\ config["field"][1].cls = "RootField"
    /\ config["field"][1].config["field-name"] = op.arg.config["field-name"]

----------------------------------------------------------------------------
(* Slot getters, setters and removers                                      *)

\* the type each typed slot declares for its elements
DeclaredType(slot) ==
    IF slot = "merge-blackout" THEN "MergeBlackout"
    ELSE IF slot = "database-backup" THEN "ScheduledDatabaseBackup"
    ELSE IF slot = "field" THEN "Field"
    ELSE SlotClass[slot]

\* what a getter answers: None, or the list it found
GetNone == [none |-> TRUE, val |-> <<>>]
GetList(l) == [none |-> FALSE, val |-> l]

\* the key element_word_query_throughs() reads and
\* set_element_word_query_throughs() writes
QueryThroughKey == "element-word-query_through"

\* Database.fields(): the fields whose field_name() is not None
fields(cfg) ==
    IF "field" \in DOMAIN cfg
    THEN GetList(SelectSeq(cfg["field"], LAMBDA f : field_name(f) # None))
    ELSE GetNone

\* the getter of a slot (path_namespaces(), ..., element_range_indexes(), ...,
\* fields()): [err, val]
getter(cfg, slot) ==
    IF slot = "field" THEN [err |-> Ok, val |-> fields(cfg)]
    ELSE IF slot \notin DOMAIN cfg THEN [err |-> Ok, val |-> GetNone]
    ELSE IF slot = "element-word-query-through"
    THEN IF QueryThroughKey \in DOMAIN cfg
         THEN [err |-> Ok, val |-> GetList(cfg[QueryThroughKey])]
         ELSE [err |-> KeyError(QueryThroughKey), val |-> GetNone]
    ELSE [err |-> Ok, val |-> GetList(cfg[slot])]

\* a Python value handed to a setter: a list of entities, or one entity
PyList(items) == [islist |-> TRUE, items |-> items]
PyOne(e) == [islist |-> FALSE, items |-> <<e>>]

AllOfType(items, type) == \A i \in DOMAIN items : IsInstance(items[i], type)

\* validators.assert_list_of_type(value, type) passes
ListOfType(value, type) == value.islist /\ AllOfType(value.items, type)

LoopSetMessage ==
    ("path-namespace" :> "List of paths expected.") @@
    ("element-attribute-word-lexicon" :> "List of lexicons expected.") @@
    ("element-word-query-through" :> "List of query throughs expected.")

\* set_path_namespaces, set_attribute_word_lexicons and
\* set_element_word_query_throughs: one entity is wrapped in a list, anything
\* else must be a list whose elements all pass isinstance; the list is stored
\* under key
SetByLoop(cfg, slot, key, value) ==
    IF ~value.islist /\ IsInstance(value.items[1], DeclaredType(slot))
    THEN [err |-> Ok, config |-> Put(cfg, slot, value.items)]
    ELSE IF ~ListOfType(value, DeclaredType(slot))
    THEN [err |-> ValidationError(LoopSetMessage[slot]), config |-> cfg]
    ELSE [err |-> Ok, config |-> Put(cfg, key, value.items)]

\* PropertyLists.set_property_list(propname, values, proptype), and the
\* assignment self._config[propname] = assert_list_of_type(values, proptype).
\* A variant that stores the list unchecked comes first.
set_property_list_unchecked(cfg, propname, value, proptype) ==
    [err |-> Ok, config |-> Put(cfg, propname, value.items)]
set_property_list(cfg, propname, value, proptype) ==
    IF ~ListOfType(value, proptype) THEN [err |-> TypeMismatch, config |-> cfg]
    ELSE [err |-> Ok, config |-> Put(cfg, propname, value.items)]

\* Database.set_fields(fields)
set_fields(cfg, value) ==
    IF ~ListOfType(value, "Field") THEN [err |-> TypeMismatch, config |-> cfg]
    ELSE IF \E i \in DOMAIN value.items : field_name(value.items[i]) = None
    THEN [err |-> ValidationError("Fields must have a non-empty name"), config |-> cfg]
    ELSE set_property_list(cfg, "field", value, "Field")

LoopSetSlots ==
    {"path-namespace", "element-attribute-word-lexicon", "element-word-query-through"}
AssertSetSlots == {"element-word-lexicon", "phrase-through", "phrase-around"}
PropertySetSlots ==
    {"default-ruleset", "fragment-root", "fragment-parent", "merge-blackout",
     "database-backup"}
SetSlots == LoopSetSlots \cup AssertSetSlots \cup PropertySetSlots \cup {"field"}

\* the set_* method of a slot: [err, config]
set_slot(cfg, slot, value) ==
    IF slot = "field" THEN set_fields(cfg, value)
    ELSE IF slot = "element-word-query-through"
    THEN SetByLoop(cfg, slot, QueryThroughKey, value)
    ELSE IF slot \in LoopSetSlots THEN SetByLoop(cfg, slot, slot, value)
    ELSE set_property_list(cfg, slot, value, DeclaredType(slot))

\* what the set_* method of a slot returns when it succeeds
SetReturns(slot) == IF slot \in PropertySetSlots \cup {"field"} THEN Self ELSE NoEntity

\* the slots with an add_* method that is one add_to_property_list call
AddSlots == SetSlots \ {"field"}

\* the add method of a slot: add_field, add_index, or the slot's add_* method
add_slot(cfg, slot, e) ==
    IF slot = "field" THEN add_field(cfg, e)
    ELSE IF slot \in IndexSlots THEN add_index(cfg, e)
    ELSE add_to_property_list(cfg, slot, e, DeclaredType(slot))

RemoveSlots == {"fragment-root", "fragment-parent", "merge-blackout", "database-backup"}

\* the list l without its first element equal to e
RemoveFirst(l, e) ==
    IF \E i \in DOMAIN l : l[i] = e
    THEN LET k == Min({i \in DOMAIN l : l[i] = e})
         IN  [i \in 1..(Len(l) - 1) |-> IF i < k THEN l[i] ELSE l[i + 1]]
    ELSE l

\* PropertyLists.remove_from_property_list(propname, value, proptype)
remove_from_property_list(cfg, propname, value, proptype) ==
    IF ~IsInstance(value, proptype) THEN [err |-> TypeMismatch, config |-> cfg]
    ELSE IF propname \notin DOMAIN cfg THEN [err |-> Ok, config |-> cfg]
    ELSE [err |-> Ok, config |-> Put(cfg, propname, RemoveFirst(cfg[propname], value))]

----------------------------------------------------------------------------
(* A Database driven through the accessors of its typed slots              *)

\* an entity of the slot's declared type, built by the public constructors
SlotEntity(slot, v) ==
    IF slot = "merge-blackout"
    THEN IF v = "a"
         THEN NewMergeBlackout("MergeBlackoutRecurringAllDay",
                               BlackoutTop("MergeBlackoutRecurringAllDay"), EmptyDict)
         ELSE NewMergeBlackout("MergeBlackoutOneTimeDuration",
                               BlackoutTop("MergeBlackoutOneTimeDuration"), OnceDuration)
    ELSE IF slot = "database-backup"
    THEN LET type == IF v = "a" THEN "daily" ELSE "once"
         IN  NewScheduledBackup(type, [k \in Range(BackupArgs[type]) |-> v], None)
    ELSE IF slot = "field"
    THEN RootField(IF v = "a" THEN "f1" ELSE "f2", TRUE)
    ELSE NewEntity(SlotClass[slot],
                   [k \in Range(SlotArgs[slot]) |->
                       IF k = "range-value-positions" THEN TRUE ELSE v])

\* an entity that is not of the slot's declared type
OtherEntity(slot) ==
    IF slot = "range-element-index" THEN WordQuery(FALSE)
    ELSE SlotEntity("range-element-index", "a")

\* the slots SlotAdd adds to: through add_index, add_field and the add_* methods
AddCallSlots == AddSlots \cup {"range-element-index", "field"}

AddCallArgs(slot) ==
    {SlotEntity(slot, "a"), OtherEntity(slot)}
    \cup (IF slot = "field"
          THEN {SlotEntity(slot, "b"), WordQuery(FALSE),
                PathField("", <<FieldPath("/a/b", "1.0")>>)}
          ELSE {})

SetCallArgs(slot) ==
    {PyList(<<SlotEntity(slot, "b"), SlotEntity(slot, "a")>>),
     PyList(<<SlotEntity(slot, "a"), OtherEntity(slot)>>)}
    \cup (IF slot \in LoopSetSlots
          THEN {PyOne(SlotEntity(slot, "a")), PyOne(OtherEntity(slot))} ELSE {})
    \cup (IF slot = "field"
          THEN {PyList(<<SlotEntity(slot, "a"), WordQuery(FALSE)>>),
                PyList(<<PathField("", <<FieldPath("/a/b", "1.0")>>),
                         SlotEntity(slot, "a")>>)}
          ELSE {})

\* a call of a slot's mutator, r its [err, config], ret what it returns
SlotCall(opname, slot, arg, r, ret) ==
    /\ pc = "ops"
    /\ steps < MaxOps
    /\ steps' = steps + 1
    /\ config' = r.config
    /\ pre' = config
    /\ err' = r.err
    /\ out' = IF r.err = Ok THEN ret ELSE NoEntity
    /\ op' = [name |-> opname, slot |-> slot, arg |-> arg]
    /\ UNCHANGED <<name, etag, doc, doc0, pc, conn>>

SlotAdd ==
    \E slot \in AddCallSlots : \E e \in AddCallArgs(slot) :
        SlotCall("add", slot, e, add_slot(config, slot, e), Self)

SlotSet ==
    \E slot \in SetSlots : \E value \in SetCallArgs(slot) :
        SlotCall("set", slot, value, set_slot(config, slot, value), SetReturns(slot))

SlotRemove ==
    \E slot \in RemoveSlots : \E v \in {"a", "b"} :
        SlotCall("remove", slot, SlotEntity(slot, v),
                 remove_from_property_list(config, slot, SlotEntity(slot, v),
                                           DeclaredType(slot)),
                 Self)

\* the slots whose getter SlotGet calls
GetCallSlots ==
    {"path-namespace", "fragment-root", "merge-blackout", "database-backup",
     "range-element-index", "element-word-query-through", "field"}

\* a slot's getter
SlotGet ==
    \E slot \in GetCallSlots :
        /\ pc = "ops"
        /\ out' = getter(config, slot).val
        /\ err' = getter(config, slot).err
        /\ pre' = config
        /\ op' = [name |-> "get", slot |-> slot, arg |-> NoEntity]
        /\ UNCHANGED <<config, name, etag, doc, doc0, steps, pc, conn>>

NextSlots ==
    \/ SlotAdd
    \/ SlotSet
    \/ SlotRemove
    \/ SlotGet
    \/ SetWordQuery
    \/ RoundTrip

SpecSlots == Init /\ [][NextSlots]_vars

----------------------------------------------------------------------------
(* Claims on the typed slots                                               *)

\* C11: a typed add call (an add_* method, add_field, add_index) with an
\* element that is not an instance of the slot's declared type fails, with the
\* type-mismatch error for the add_* methods and add_field, and leaves the
\* whole configuration as it was.
C11_TypeEnforcedOnAdd ==
    (op.name = "add" /\ ~IsInstance(op.arg, DeclaredType(op.slot))) =>
        /\ err = IF op.slot \in IndexSlots
                 THEN ValidationError("Not an index") ELSE TypeMismatch
        /\ config = pre

\* C11 witness: add_scheduled_backup with an ElementRangeIndex was refused on a
\* Database that holds one scheduled backup.
C11_Witness ==
    /\ op.name = "add" /\ op.slot = "database-backup"
    /\ op.arg.cls = "ElementRangeIndex"
    /\ err = TypeMismatch
    /\ "database-backup" \in DOMAIN config
    /\ config["database-backup"] = <<SlotEntity("database-backup", "a")>>

\* C12: in every state, after any calls of the add, set, remove, set_word_query
\* and unmarshal operations, failed ones included, every element under a typed
\* slot key is an instance of the slot's declared type.
C12_SlotsTyped ==
    \A slot \in ArraySlots \cap DOMAIN config :
        AllOfType(config[slot], DeclaredType(slot))

\* C12 witness: a set call with an element of another type has failed on a
\* Database whose slot holds two elements.
C12_Witness ==
    /\ op.name = "set" /\ op.slot = "merge-blackout"
    /\ err = TypeMismatch
    /\ \E i \in DOMAIN op.arg.items : op.arg.items[i].cls = "ElementRangeIndex"
    /\ "merge-blackout" \in DOMAIN config
    /\ Len(config["merge-blackout"]) = 2

\* C13: a set_* call fails and leaves the configuration as it was when an
\* element of the given list is not of the slot's type (or, for set_fields, has
\* no name); when every element passes, the call succeeds and the slot holds
\* exactly the given sequence.
C13_SetAllOrNothing ==
    (op.name = "set" /\ op.arg.islist) =>
        IF /\ AllOfType(op.arg.items, DeclaredType(op.slot))
           /\ op.slot = "field" =>
                 \A i \in DOMAIN op.arg.items : op.arg.items[i].cls # "WordQuery"
        THEN /\ err = Ok
             /\ op.slot \in DOMAIN config
             /\ config[op.slot] = op.arg.items
        ELSE /\ err # Ok
             /\ config = pre

\* the slot was never populated: the Database is fresh, or is as unmarshal
\* built it from a wire document without the slot
NeverPopulated(slot) ==
    \/ config = NewDatabaseConfig("Documents")
    \/ config = doc /\ slot \notin DOMAIN doc0

\* C14: a slot's getter completes and answers None when the slot was never
\* populated, on a fresh Database and on one unmarshalled from a document
\* without the slot; for a slot that holds a sequence it answers that sequence
\* (fields() the named fields of it).
C14_AbsentIsNone ==
    op.name = "get" =>
        /\ err = Ok
        /\ NeverPopulated(op.slot) => out = GetNone
        /\ (~NeverPopulated(op.slot) /\ op.slot \in DOMAIN config) =>
              out = GetList(IF op.slot = "field"
                            THEN SelectSeq(config["field"],
                                           LAMBDA f : f.cls # "WordQuery")
                            ELSE config[op.slot])

----------------------------------------------------------------------------
(* Claims on what unmarshal does with its argument                         *)

\* the keys its variant requires that a record of the slot lacks
MissingRequired(slot, rec) ==
    IF slot = "merge-blackout"
    THEN IF "blackout-type" \notin DOMAIN rec THEN {"blackout-type"}
         ELSE IF rec["blackout-type"] \in {"recurring", "once"}
         THEN {"period"} \ DOMAIN rec
         ELSE {}
    ELSE IF slot = "database-backup"
    THEN IF "backup-type" \notin DOMAIN rec THEN {"backup-type"}
         ELSE IF rec["backup-type"] \in BackupTypes
         THEN (Range(BackupArgs[rec["backup-type"]]) \cup {"backup-id"}) \ DOMAIN rec
         ELSE {}
    ELSE IF slot = "field" THEN {"field-name"} \ DOMAIN rec
    ELSE Range(SlotArgs[slot]) \ DOMAIN rec

\* every record of the document before record i of the slot decodes
DecodesBefore(slot, i) ==
    /\ \A j \in 1..(i - 1) : DecodeRecord(slot, doc0[slot][j]).err = Ok
    /\ \A other \in (ArraySlots \cap DOMAIN doc0) \ {slot} :
          \A j \in DOMAIN doc0[other] : DecodeRecord(other, doc0[other][j]).err = Ok

\* C15: unmarshal of a document without database-name, or of one whose first
\* record that does not decode lacks a key its variant requires, raises
\* KeyError naming a missing key, and no Database is returned.
C15_MalformedRaises ==
    Unmarshalled =>
        /\ "database-name" \notin DOMAIN doc0
              => err = KeyError("database-name") /\ out = NoEntity /\ pc = "failed"
        /\ "database-name" \in DOMAIN doc0
              => \A slot \in ArraySlots \cap DOMAIN doc0 : \A i \in DOMAIN doc0[slot] :
                    (MissingRequired(slot, doc0[slot][i]) # {} /\ DecodesBefore(slot, i))
                    => /\ err.type = "KeyError"
                       /\ err.detail \in MissingRequired(slot, doc0[slot][i])
                       /\ out = NoEntity
                       /\ pc = "failed"

\* C15 witness: unmarshal raised KeyError('scalar-type') on the second record
\* of the range-element-index slot, the first one being well-formed.
C15_Witness ==
    /\ Unmarshalled
    /\ err = KeyError("scalar-type")
    /\ "range-element-index" \in DOMAIN doc0
    /\ Len(doc0["range-element-index"]) = 2
    /\ WellFormedSimple("range-element-index", doc0["range-element-index"][1])
    /\ out = NoEntity

\* C16: unmarshal leaves the wire document handed to it as it was, whether it
\* returns or raises, and marshal leaves the Database as it was, so that a
\* second marshal() gives an equal document.
C16_Pure ==
    /\ Unmarshalled => doc = doc0
    /\ op.name = "marshal" => (config = pre /\ marshal(config) = out)

\* C17: every key of the wire document that is not a known array slot is kept
\* by unmarshal with its value, and marshal copies every such key of the
\* Database into its output with its value.
C17_OpaquePassthrough ==
    /\ (Unmarshalled /\ err = Ok) =>
          /\ DOMAIN doc0 \ ArraySlots \subseteq DOMAIN config
          /\ DOMAIN doc0 \ ArraySlots \subseteq DOMAIN marshal(config)
          /\ \A key \in DOMAIN doc0 \ ArraySlots :
                config[key] = doc0[key] /\ marshal(config)[key] = doc0[key]
    /\ op.name = "marshal" =>
          /\ DOMAIN config \ ArraySlots \subseteq DOMAIN out
          /\ \A key \in DOMAIN config \ ArraySlots : out[key] = config[key]

\* C17 witness: marshal() of a Database decoded from a document with a
\* merge-blackout record answered a document with the unknown key.
C17_Witness ==
    /\ op.name = "marshal"
    /\ "x-opaque" \in DOMAIN doc0
    /\ "x-opaque" \in DOMAIN out /\ out["x-opaque"] = "kept"
    /\ out["enabled"] = TRUE
    /\ "merge-blackout" \in DOMAIN doc0 /\ Len(doc0["merge-blackout"]) = 1
    /\ Len(out["merge-blackout"]) = 1

----------------------------------------------------------------------------
(* Claims on the fields, the boolean tokens and the scalar options         *)

\* a field with the empty name: the word query settings, or a field entity
\* carrying the name ""
EmptyNamed(f) ==
    \/ f.cls = "WordQuery"
    \/ /\ f.cls \in FieldClasses
       /\ "field-name" \in DOMAIN f.config
       /\ f.config["field-name"] = ""

\* the fields handed to the last add_field or set_fields
FieldArgs == IF op.name = "add" THEN <<op.arg>> ELSE op.arg.items

\* C18: add_field and set_fields reject every field whose name is empty with
\* ValidationError('Fields must have a non-empty name') and leave the
\* configuration as it was; a field add_field accepts goes to the end of the
\* field slot
C18_NamedFieldEnforcement ==
    (op.name \in {"add", "set"} /\ op.slot = "field") =>
        /\ (\E i \in DOMAIN FieldArgs : EmptyNamed(FieldArgs[i])) =>
               /\ err = ValidationError("Fields must have a non-empty name")
               /\ config = pre
        /\ (op.name = "add" /\ err = Ok) =>
               /\ "field" \in DOMAIN config
               /\ config["field"] =
                      (IF "field" \in DOMAIN pre THEN pre["field"] ELSE <<>>)
                          \o <<op.arg>>

\* the boolean an index entity carries for range-value-positions
RangeValuePositions(e) == e.config["range-value-positions"] = "true"

\* C19: marshal() followed by unmarshal keeps the string-typed flags: every
\* index entity goes out with range-value-positions "true" or "false" as its
\* flag says and comes back with the same flag, and every root field goes out
\* with include-root "true" or "false" and comes back with the same boolean
C19_BoolTokensRoundTrip ==
    (op.name = "roundtrip" /\ err = Ok) =>
        /\ \A slot \in IndexSlots \cap DOMAIN pre :
               /\ Len(doc0[slot]) = Len(pre[slot])
               /\ Len(config[slot]) = Len(pre[slot])
               /\ \A i \in DOMAIN pre[slot] :
                      /\ doc0[slot][i]["range-value-positions"] \in {"true", "false"}
                      /\ (doc0[slot][i]["range-value-positions"] = "true")
                            <=> RangeValuePositions(pre[slot][i])
                      /\ RangeValuePositions(config[slot][i])
                            <=> RangeValuePositions(pre[slot][i])
        /\ "field" \in DOMAIN pre =>
               /\ Len(doc0["field"]) = Len(pre["field"])
               /\ Len(config["field"]) = Len(pre["field"])
               /\ \A i \in DOMAIN pre["field"] :
                      pre["field"][i].cls = "RootField" =>
                          /\ doc0["field"][i]["include-root"] \in {"true", "false"}
                          /\ (doc0["field"][i]["include-root"] = "true")
                                <=> pre["field"][i].config["include-root"]
                          /\ config["field"][i].cls = "RootField"
                          /\ config["field"][i].config["include-root"]
                                = pre["field"][i].config["include-root"]

\* a round trip of a range element index that was built with the flag False
C19_Witness ==
    /\ op.name = "roundtrip"
    /\ err = Ok
    /\ "range-element-index" \in DOMAIN pre
    /\ Len(pre["range-element-index"]) = 1
    /\ ~RangeValuePositions(pre["range-element-index"][1])
    /\ doc0["range-element-index"][1]["range-value-positions"] = "false"
    /\ ~RangeValuePositions(config["range-element-index"][1])

----------------------------------------------------------------------------
(* Scalar options: validator, assignment, return self                      *)

\* Python values handed to the scalar setters
PyBool(b) == [type |-> "bool", val |-> b]
PyStr(str) == [type |-> "str", val |-> str]
PyInt(n) == [type |-> "int", val |-> n]

\* what a validator raises for a value it rejects
InvalidValue == [type |-> "ValidationError", detail |-> "invalid value"]

\* the validators: TRUE when the value passes
validate_boolean(v) == v.type = "bool"
validate_string(v) == v.type = "str"
validate_stemmed_searches_type(v) ==
    v.type = "str" /\ v.val \in {"off", "basic", "advanced", "decompounding"}
validate_locking_type(v) ==
    v.type = "str" /\ v.val \in {"strict", "fast", "off"}
validate_integer_range(v, lo, hi) ==
    v.type = "int" /\ lo <= v.val /\ v.val <= hi

\* the body the validating setters share: validate_X(value);
\* self._config[key] = value; return self.  A variant that stores without
\* validating comes first.
set_option_unvalidated(cfg, key, valid, value) ==
    [err |-> Ok, config |-> Put(cfg, key, value.val)]
set_option(cfg, key, valid, value) ==
    IF ~valid THEN [err |-> InvalidValue, config |-> cfg]
    ELSE [err |-> Ok, config |-> Put(cfg, key, value.val)]

set_enabled(cfg, enabled) ==
    set_option(cfg, "enabled", validate_boolean(enabled), enabled)
set_language(cfg, language) ==
    set_option(cfg, "language", validate_string(language), language)
set_stemmed_searches(cfg, which) ==
    set_option(cfg, "stemmed-searches", validate_stemmed_searches_type(which), which)
set_reindexer_throttle(cfg, limit) ==
    set_option(cfg, "reindexer-throttle", validate_integer_range(limit, 1, 5), limit)
set_locking(cfg, which) ==
    set_option(cfg, "locking", validate_locking_type(which), which)
set_rebalancer_throttle(cfg, limit) ==
    set_option(cfg, "rebalancer-throttle", validate_integer_range(limit, 1, 5), limit)

\* the getter of a scalar option: the stored value, None when the key is absent
option(cfg, key) == IF key \in DOMAIN cfg THEN cfg[key] ELSE None

ScalarKeys ==
    {"enabled", "language", "stemmed-searches", "reindexer-throttle", "locking",
     "rebalancer-throttle"}

\* the setter of a scalar option, by the key it stores under
Setter(cfg, key, value) ==
    CASE key = "enabled" -> set_enabled(cfg, value)
      [] key = "language" -> set_language(cfg, value)
      [] key = "stemmed-searches" -> set_stemmed_searches(cfg, value)
      [] key = "reindexer-throttle" -> set_reindexer_throttle(cfg, value)
      [] key = "locking" -> set_locking(cfg, value)
      [] key = "rebalancer-throttle" -> set_rebalancer_throttle(cfg, value)

\* the values the setters are called with: some pass the validator, some do not
ScalarArgs(key) ==
    CASE key = "enabled" -> {PyBool(TRUE), PyBool(FALSE), PyStr("true"), PyInt(1)}
      [] key = "language" -> {PyStr("en"), PyStr("fr"), PyInt(1), PyBool(TRUE)}
      [] key = "stemmed-searches" ->
            {PyStr("off"), PyStr("basic"), PyStr("decompounding"), PyStr("stem"),
             PyBool(TRUE)}
      [] key = "locking" ->
            {PyStr("strict"), PyStr("fast"), PyStr("off"), PyStr("basic"), PyInt(1)}
      [] key \in {"reindexer-throttle", "rebalancer-throttle"} ->
            {PyInt(0), PyInt(1), PyInt(5), PyInt(6), PyStr("fast")}

SetScalar ==
    \E key \in ScalarKeys : \E value \in ScalarArgs(key) :
        Mutate("set_option", [key |-> key, value |-> value],
               Setter(config, key, value), Self)

ScalarGet ==
    \E key \in ScalarKeys : Read("option", option(config, key))

\* a dict stored where the other options store a scalar
PyDict(d) == [type |-> "dict", val |-> d]

validate_assignment_policy_options(v) ==
    v.type = "str" /\ v.val \in {"bucket", "statistical", "range", "legacy"}

\* Database.set_assignment_policy(which): stores {"assignment-policy-name": which}
set_assignment_policy(cfg, which) ==
    IF ~validate_assignment_policy_options(which)
    THEN [err |-> InvalidValue, config |-> cfg]
    ELSE [err |-> Ok,
          config |-> Put(cfg, "assignment-policy",
                         PyDict([x \in {"assignment-policy-name"} |-> which.val]))]

\* Database.assignment_policy()
assignment_policy(cfg) ==
    IF "assignment-policy" \in DOMAIN cfg THEN cfg["assignment-policy"] ELSE None

SetAssignmentPolicy ==
    \E which \in {PyStr("bucket"), PyStr("legacy"), PyStr("fast"), PyInt(1)} :
        Mutate("set_assignment_policy", which,
               set_assignment_policy(config, which), Self)

NextScalar ==
    \/ SetScalar
    \/ SetAssignmentPolicy
    \/ ScalarGet
    \/ Marshal

SpecScalar == Init /\ [][NextScalar]_vars

\* what the validator of a scalar option says of a value
Accepts(key, v) ==
    CASE key = "enabled" -> v.type = "bool"
      [] key = "language" -> v.type = "str"
      [] key = "stemmed-searches" ->
            v.type = "str" /\ v.val \in {"off", "basic", "advanced", "decompounding"}
      [] key = "locking" -> v.type = "str" /\ v.val \in {"strict", "fast", "off"}
      [] key \in {"reindexer-throttle", "rebalancer-throttle"} ->
            v.type = "int" /\ v.val \in 1..5

\* C20: a scalar setter whose validator rejects the value raises and leaves the
\* whole configuration as it was; with an accepted value it stores the value
\* under the option's key, leaves every other key alone and returns the
\* Database itself
C20_ValidateBeforeStore ==
    op.name = "set_option" =>
        IF Accepts(op.arg.key, op.arg.value)
        THEN /\ err = Ok
             /\ out = Self
             /\ DOMAIN config = DOMAIN pre \cup {op.arg.key}
             /\ config[op.arg.key] = op.arg.value.val
             /\ \A k \in DOMAIN pre : k # op.arg.key => config[k] = pre[k]
        ELSE /\ err = InvalidValue
             /\ config = pre

\* set_reindexer_throttle(6) after set_reindexer_throttle(5): raised, 5 kept
C20_Witness ==
    /\ op.name = "set_option"
    /\ op.arg.key = "reindexer-throttle"
    /\ op.arg.value = PyInt(6)
    /\ err = InvalidValue
    /\ "reindexer-throttle" \in DOMAIN config
    /\ config["reindexer-throttle"] = 5
    /\ config = pre

----------------------------------------------------------------------------
(* Claims on add_index, the getters and the scalar options                 *)

\* the slot of each index kind
IndexKindSlot ==
    ("ElementRangeIndex" :> "range-element-index") @@
    ("AttributeRangeIndex" :> "range-element-attribute-index") @@
    ("FieldRangeIndex" :> "range-field-index") @@
    ("PathRangeIndex" :> "range-path-index") @@
    ("GeospatialElementIndex" :> "geospatial-element-index") @@
    ("GeospatialElementChildIndex" :> "geospatial-element-child-index") @@
    ("GeospatialElementPairIndex" :> "geospatial-element-pair-index") @@
    ("GeospatialElementAttributePairIndex" :>
        "geospatial-element-attribute-pair-index") @@
    ("GeospatialPathIndex" :> "geospatial-path-index")

\* C21: add_index appends an index definition to the slot of its own kind and
\* to no other, every other key of the configuration staying as it was; a
\* value that is not an index raises ValidationError('Not an index') and
\* changes nothing
C21_IndexInOwnSlot ==
    op.name = "add_index" =>
        IF op.arg.cls \in DOMAIN IndexKindSlot
        THEN LET slot == IndexKindSlot[op.arg.cls] IN
             /\ err = Ok
             /\ out = Self
             /\ DOMAIN config = DOMAIN pre \cup {slot}
             /\ config[slot] =
                    (IF slot \in DOMAIN pre THEN pre[slot] ELSE <<>>) \o <<op.arg>>
             /\ \A k \in DOMAIN pre : k # slot => config[k] = pre[k]
        ELSE /\ err = ValidationError("Not an index")
             /\ config = pre

\* an AttributeRangeIndex added after an ElementRangeIndex: each in its slot
C21_Witness ==
    /\ op.name = "add_index"
    /\ op.arg.cls = "AttributeRangeIndex"
    /\ err = Ok
    /\ "range-element-index" \in DOMAIN config
    /\ Len(config["range-element-index"]) = 1
    /\ config["range-element-index"][1].cls = "ElementRangeIndex"
    /\ "range-element-attribute-index" \in DOMAIN config
    /\ config["range-element-attribute-index"] = <<op.arg>>

\* what the getter of the last call's slot answers now
GetterNow == getter(config, op.slot)

\* C22: after a successful add the slot's getter returns a list ending with
\* the added entity, after a successful set it returns the list that was set,
\* and a getter never raises
C22_WriteReadConsistent ==
    /\ (op.name = "add" /\ err = Ok) =>
          /\ GetterNow.err = Ok
          /\ ~GetterNow.val.none
          /\ Len(GetterNow.val.val) > 0
          /\ GetterNow.val.val[Len(GetterNow.val.val)] = op.arg
    /\ (op.name = "set" /\ err = Ok) =>
          /\ GetterNow.err = Ok
          /\ GetterNow.val = GetList(op.arg.items)
    /\ op.name = "get" => err = Ok

\* C23: after a scalar setter succeeds the option's getter returns the value
\* that was set, assignment_policy() after set_assignment_policy(which)
\* included (the value compared as the Python string it was passed as), and
\* the getter of an option that is not in the configuration returns None
C23_ScalarSetGet ==
    /\ (op.name = "set_option" /\ err = Ok) =>
          option(config, op.arg.key) = op.arg.value.val
    /\ (op.name = "set_assignment_policy" /\ err = Ok) =>
          assignment_policy(config) = op.arg
    /\ \A key \in ScalarKeys \ DOMAIN config : option(config, key) = None
    /\ "assignment-policy" \notin DOMAIN config => assignment_policy(config) = None

----------------------------------------------------------------------------
(* Claim on merge-blackout records that match several rules                *)

\* a merge-blackout record whose period has both duration and end-time
BothShapes(b) ==
    /\ "period" \in DOMAIN b
    /\ {"duration", "end-time"} \subseteq DOMAIN b["period"]

\* C29: a decoded merge-blackout record whose period holds both duration and
\* end-time became the duration variant when its blackout-type is "recurring"
\* and the start-end variant when it is "once", and equal records of one
\* document became equal entities
C29_BothShapesResolved ==
    (Unmarshalled /\ err = Ok /\ "merge-blackout" \in DOMAIN doc0) =>
        /\ Len(config["merge-blackout"]) = Len(doc0["merge-blackout"])
        /\ \A i \in DOMAIN doc0["merge-blackout"] :
              LET b == doc0["merge-blackout"][i]
                  e == config["merge-blackout"][i]
              IN  /\ (BothShapes(b) /\ b["blackout-type"] = "recurring") =>
                         /\ e.cls = "MergeBlackoutRecurringDuration"
                         /\ e.config["period"] = PeriodDuration
                  /\ (BothShapes(b) /\ b["blackout-type"] = "once") =>
                         /\ e.cls = "MergeBlackoutOneTimeStartEnd"
                         /\ e.config["period"] = OnceEnd
        /\ \A i, j \in DOMAIN doc0["merge-blackout"] :
              doc0["merge-blackout"][i] = doc0["merge-blackout"][j]
                  => config["merge-blackout"][i] = config["merge-blackout"][j]

\* a decoded document with a "once" record and a "recurring" record that both
\* carry duration and end-time
C29_Witness ==
    /\ Unmarshalled /\ err = Ok
    /\ "merge-blackout" \in DOMAIN doc0
    /\ doc0["merge-blackout"] = << BlackoutRecord("once", OnceBoth),
                                   BlackoutRecord("recurring", PeriodBoth) >>
    /\ config["merge-blackout"][1].cls = "MergeBlackoutOneTimeStartEnd"
    /\ config["merge-blackout"][2].cls = "MergeBlackoutRecurringDuration"

----------------------------------------------------------------------------
(* A Database driven over a connection: create, read, update, lookup       *)

\* the status codes the server answers with
Statuses == {200, 201, 404, 500}

\* response.text of an answer
ResponseText == "response text"

\* None where a Database is expected
NoDatabase == [self |-> FALSE]

\* a Forest object in the forest slot, written as a token; its name()
ForestObjectName == ("<Forest F2>" :> "F2")
ForestObjects == DOMAIN ForestObjectName

\* a request handed to the transport
Request(method, uri, target, headers, body) ==
    [method |-> method, uri |-> uri, name |-> target, headers |-> headers,
     body |-> body]

\* Database.set_database_name(name)
set_database_name(cfg, dbname) ==
    [err |-> Ok, config |-> Put(cfg, "database-name", dbname)]

\* Database.add_forest_name(forest): add_to_property_list('forest', forest)
add_forest_name(cfg, forest) ==
    [err |-> Ok,
     config |-> Put(cfg, "forest",
                    Append(IF "forest" \in DOMAIN cfg THEN cfg["forest"] ELSE <<>>,
                           forest))]

\* the forest_names list create builds: the entry itself for a string, its
\* name() for a Forest.  A variant that keeps the entries as they are comes
\* first.
ForestNamesAsGiven(forests) == forests
ForestNames(forests) ==
    [i \in DOMAIN forests |->
        IF forests[i] \in ForestObjects THEN ForestObjectName[forests[i]]
        ELSE forests[i]]

\* Forest.create(connection) of the i-th entry
ForestRequest(forests, i) ==
    Request("POST", "/manage/v2/forests", ForestNames(forests)[i], EmptyDict, EmptyDict)

\* the database name update puts in its uri.  A variant that takes the name
\* from the configuration comes first.
UpdateTargetConfigured(cfg, selfname) == cfg["database-name"]
UpdateTarget(cfg, selfname) == selfname

\* the headers of update.  A variant that always sends if-match comes first.
UpdateHeadersAlways(selfetag) == ("if-match" :> selfetag)
UpdateHeaders(selfetag) ==
    IF selfetag # None THEN ("if-match" :> selfetag) ELSE EmptyDict

\* the one status lookup decodes the answer for.  A variant that takes every
\* 2xx comes first.
LookupFoundAny2xx(status) == status <= 299
LookupFound(status) == status = 200

\* a call of a method that talks to the server
Transport(call, log, r) ==
    /\ pc = "ops"
    /\ steps < MaxOps
    /\ steps' = steps + 1
    /\ config' = r.config
    /\ name' = r.name
    /\ etag' = r.etag
    /\ err' = r.err
    /\ out' = r.out
    /\ pre' = config
    /\ op' = call
    /\ conn' = [log |-> log,
                dbname |-> r.dbname,
                etag |-> r.lookedup]
    /\ UNCHANGED <<doc, doc0, pc>>

\* the object as it is: what a call that fails or changes nothing leaves
Unchanged(e, ret) ==
    [config |-> config, name |-> name, etag |-> etag, err |-> e, out |-> ret,
     dbname |-> conn.dbname, lookedup |-> conn.etag]

SetDatabaseName ==
    \E dbname \in {"Documents", "Renamed"} :
        Mutate("set_database_name", NoEntity, set_database_name(config, dbname), Self)

AddForestName ==
    \E forest \in {"F1"} \cup ForestObjects :
        Mutate("add_forest_name", NoEntity, add_forest_name(config, forest), Self)

\* Database.create(connection): failAt is the forest whose creation fails
\* (0: none), status the answer to the database POST
Create ==
    \E failAt \in 0..(IF "forest" \in DOMAIN config THEN Len(config["forest"]) ELSE 0) :
    \E status \in (IF failAt = 0 THEN Statuses ELSE {500}) :
        LET call == [name |-> "create", arg |-> NoEntity, status |-> status,
                     failAt |-> failAt]
        IN
        IF "forest" \notin DOMAIN config
        THEN Transport(call, <<>>, Unchanged(KeyError("forest"), NoEntity))
        ELSE LET forests == config["forest"]
                 created == [i \in 1..(IF failAt = 0 THEN Len(forests) ELSE failAt) |->
                                ForestRequest(forests, i)]
                 posted == Put(config, "forest", ForestNames(forests))
             IN  IF failAt # 0
                 THEN Transport(call, created,
                        Unchanged(UnexpectedManagementAPIResponse(ResponseText),
                                  NoEntity))
                 ELSE Transport(call,
                        Append(created,
                               Request("POST", "/manage/v2/databases", None,
                                       EmptyDict, posted)),
                        [Unchanged(IF status > 299
                                   THEN UnexpectedManagementAPIResponse(ResponseText)
                                   ELSE Ok,
                                   IF status > 299 THEN NoEntity ELSE Self)
                         EXCEPT !.config = posted])

\* Database.read(connection): Server is not a name of the module
ReadFromServer ==
    Transport([name |-> "read", arg |-> NoEntity], <<>>,
              Unchanged(NameError("Server"), NoEntity))

\* Database.update(connection)
Update ==
    \E status \in Statuses :
        LET request == Request("PUT", "/manage/v2/databases/{2}/properties",
                               UpdateTarget(config, name), UpdateHeaders(etag),
                               marshal(config))
        IN  Transport([name |-> "update", arg |-> NoEntity, status |-> status,
                       selfname |-> name, selfetag |-> etag],
                      <<request>>,
                      IF status > 299
                      THEN Unchanged(UnexpectedManagementAPIResponse(ResponseText),
                                     NoEntity)
                      ELSE [Unchanged(Ok, Self)
                            EXCEPT !.name = config["database-name"],
                                   !.dbname = request.body["database-name"]])

\* the documents the server answers a lookup with
ServerDocs ==
    { BaseDoc,
      BaseDoc @@ ("merge-blackout" :> <<BlackoutRecord("recurring", NonePeriod)>>),
      BaseDoc @@ ("range-element-index" :> <<("namespace-uri" :> "a")>>),
      Restrict(BaseDoc, {"enabled"}) }

\* Database.lookup(connection, name): the object observed from here on is the
\* one lookup returned, when it returned one.  header is the response's etag
\* header, None when there is none.
Lookup ==
    \E dbname \in {"Documents"} :
    \E status \in Statuses :
    \E body \in (IF status = 200 THEN ServerDocs ELSE {EmptyDict}) :
    \E header \in (IF status = 200 THEN {None, "e1", "e2"} ELSE {None}) :
        LET call == [name |-> "lookup", arg |-> NoEntity, status |-> status,
                     body |-> body, header |-> header]
            request == Request("GET", "/manage/v2/databases/{2}/properties", dbname,
                               ("accept" :> "application/json"), EmptyDict)
            r == unmarshal(body)
        IN  IF LookupFound(status)
            THEN IF r.err # Ok
                 THEN Transport(call, <<request>>, Unchanged(r.err, NoEntity))
                 ELSE Transport(call, <<request>>,
                        [config |-> r.config, name |-> r.config["database-name"],
                         etag |-> header, err |-> Ok, out |-> Self,
                         dbname |-> r.config["database-name"], lookedup |-> header])
            ELSE IF status # 404
            THEN Transport(call, <<request>>,
                    Unchanged(UnexpectedManagementAPIResponse(ResponseText), NoEntity))
            ELSE Transport(call, <<request>>, Unchanged(Ok, NoDatabase))

NextServer ==
    \/ SetDatabaseName
    \/ AddForestName
    \/ AddMergeBlackout
    \/ Create
    \/ ReadFromServer
    \/ Update
    \/ Lookup

SpecServer == Init /\ [][NextServer]_vars

----------------------------------------------------------------------------
(* Claims on the calls that talk to the server                             *)

\* C24: update addresses the server with self.name as it was before the call;
\* after a successful update self.name is the configuration's database-name,
\* after an answer above 299 UnexpectedManagementAPIResponse is raised and
\* self.name is as before; so self.name is always the database-name sent by
\* the latest successful update, or the name the object started with
C24_RenameProtocol ==
    /\ name = conn.dbname
    /\ op.name = "update" =>
          /\ Len(conn.log) = 1
          /\ conn.log[1].method = "PUT"
          /\ conn.log[1].name = op.selfname
          /\ IF op.status > 299
             THEN /\ err = UnexpectedManagementAPIResponse(ResponseText)
                  /\ name = op.selfname
             ELSE /\ err = Ok
                  /\ name = config["database-name"]
                  /\ name = conn.log[1].body["database-name"]

\* a rename: set_database_name('Renamed'), then an update that succeeds
C24_Witness ==
    /\ op.name = "update"
    /\ op.status = 200
    /\ op.selfname = "Documents"
    /\ conn.log[1].name = "Documents"
    /\ conn.log[1].body["database-name"] = "Renamed"
    /\ name = "Renamed"

\* C25: lookup returns the decoded document, its etag the response's etag
\* header (None without one), exactly when the answer is 200 and decodes;
\* returns None on 404; raises UnexpectedManagementAPIResponse on any other
\* status; and a decoding error comes out as it was raised, no object returned
C25_LookupOutcomes ==
    op.name = "lookup" =>
        /\ (out = Self) <=> (op.status = 200 /\ unmarshal(op.body).err = Ok)
        /\ out = Self =>
              /\ err = Ok
              /\ config = unmarshal(op.body).config
              /\ name = op.body["database-name"]
              /\ etag = op.header
        /\ op.status = 404 => (out = NoDatabase /\ err = Ok)
        /\ op.status \notin {200, 404} =>
              (out = NoEntity /\ err = UnexpectedManagementAPIResponse(ResponseText))
        /\ (op.status = 200 /\ unmarshal(op.body).err # Ok) =>
              (out = NoEntity /\ err = unmarshal(op.body).err)
        /\ out # Self => (config = pre /\ etag = conn.etag)

\* a lookup answered 200 with an etag header and a document with a blackout
C25_Witness ==
    /\ op.name = "lookup"
    /\ op.status = 200
    /\ op.header = "e1"
    /\ out = Self
    /\ etag = "e1"
    /\ "merge-blackout" \in DOMAIN op.body
    /\ config["merge-blackout"][1].cls = "MergeBlackoutRecurringAllDay"

\* C26: read(connection) does not raise; it returns the object itself, its
\* configuration and etag the server's, or None with the object as it was
C26_ReadRefreshes ==
    op.name = "read" =>
        /\ err = Ok
        /\ out \in {Self, NoDatabase}
        /\ out = NoDatabase => config = pre

\* the name of an entry of the forest slot
NameOfEntry(f) == IF f = "<Forest F2>" THEN "F2" ELSE f

\* C27: create issues one forest creation per entry of the forest slot, in
\* slot order, before the database POST; at the POST the forest slot holds the
\* forest names in that order; when a forest creation fails there is no
\* database POST and the configuration is as before; a POST answered above
\* 299 raises UnexpectedManagementAPIResponse
C27_CreateOrdering ==
    (op.name = "create" /\ "forest" \in DOMAIN pre) =>
        LET forests == pre["forest"]
            created == IF op.failAt = 0 THEN Len(forests) ELSE op.failAt
        IN  /\ \A i \in 1..created :
                  /\ conn.log[i].uri = "/manage/v2/forests"
                  /\ conn.log[i].name = NameOfEntry(forests[i])
            /\ IF op.failAt # 0
               THEN /\ Len(conn.log) = created
                    /\ err = UnexpectedManagementAPIResponse(ResponseText)
                    /\ config = pre
               ELSE /\ Len(conn.log) = created + 1
                    /\ conn.log[created + 1].method = "POST"
                    /\ conn.log[created + 1].uri = "/manage/v2/databases"
                    /\ Len(config["forest"]) = Len(forests)
                    /\ \A i \in DOMAIN forests :
                          config["forest"][i] = NameOfEntry(forests[i])
                    /\ conn.log[created + 1].body["forest"] = config["forest"]
                    /\ IF op.status > 299
                       THEN err = UnexpectedManagementAPIResponse(ResponseText)
                       ELSE err = Ok /\ out = Self

\* create of a Database whose forest slot holds a name and a Forest object
C27_Witness ==
    /\ op.name = "create"
    /\ op.failAt = 0
    /\ op.status = 201
    /\ pre["forest"] = <<"Documents-Forest-001", "<Forest F2>">>
    /\ config["forest"] = <<"Documents-Forest-001", "F2">>
    /\ Len(conn.log) = 3
    /\ conn.log[2].name = "F2"

\* C28: the body create and update hand to the transport is marshal() of the
\* Database
C28_PayloadIsMarshalled ==
    (\/ op.name = "update"
     \/ (op.name = "create" /\ op.failAt = 0 /\ "forest" \in DOMAIN pre)) =>
        conn.log[Len(conn.log)].body = marshal(config)

\* C30: update sends if-match exactly when self.etag is not None, its value
\* self.etag, and leaves self.etag alone; self.etag is always the etag header
\* of the lookup that returned the object, None for a constructed Database
C30_EtagHandling ==
    /\ etag = conn.etag
    /\ op.name = "update" =>
          /\ etag = op.selfetag
          /\ ("if-match" \in DOMAIN conn.log[1].headers) <=> (op.selfetag # None)
          /\ op.selfetag # None => conn.log[1].headers["if-match"] = op.selfetag

\* an update of a Database that lookup returned with the etag e2
C30_Witness ==
    /\ op.name = "update"
    /\ op.selfetag = "e2"
    /\ conn.log[1].headers = ("if-match" :> "e2")
    /\ etag = "e2"
    /\ conn.etag = "e2"

============================================================================
